---------------------------- MODULE Spec2Model ----------------------------
(***************************************************************************)
(* Flow Specification Compiler of the CLOSED AI SDK: the validator         *)
(* (validators/flow.ts), the command line commands (cli.ts), the texts of  *)
(* the generators (generators/types.ts, generators/react.ts), the form     *)
(* module emitted by the React generator and the cost estimator with its   *)
(* model recommendation and comparison (cost/estimator.ts).                *)
(*                                                                         *)
(* JavaScript values are tagged records; a string is a sequence of         *)
(* one-character strings so that the regular expressions of the source are *)
(* computed on its characters.                                             *)
(***************************************************************************)
EXTENDS Integers, Sequences, FiniteSets, TLC

VARIABLES
    vSpec,          \* validator: the argument handed to validateFlowSpec
    vResult,        \* validator: Pending, or the outcome of the call
    cliCmd,         \* cli: the command that runs, "generate" or "validate"
    cliOpts,        \* cli: --types-only and --component-only
    cliFile,        \* cli: what the file system holds at the input path
    cliPc,          \* cli: where the command's action is
    cliFlowSpec,    \* cli: the value fs.readJson returned
    cliValidation,  \* cli: Pending, or what validateFlowSpec handed back
    cliCalls,       \* cli: the generators invoked so far, in order
    cliWritten,     \* cli: the artifact files written so far
    cliExit,        \* cli: the exit code, Undefined while the process runs
    mounted,        \* form: the component is mounted
    disabled,       \* form: the disabled prop
    formState,      \* form: useState formState (the content of the fields)
    selectedModel,  \* form: useState selectedModel
    execution,      \* form: useState execution
    costEstimate,   \* form: useState costEstimate
    view,           \* form: the state the last render closed over
    depsDirty,      \* form: formState or selectedModel changed since that render
    timers,         \* form: the timers setTimeout set that are pending, by id
    debounceTimer,  \* form: the id the last run of the effect holds, 0 for none
    estimates,      \* form: POST /api/flows/estimate requests in flight, oldest first
    runs,           \* form: POST /api/flows/run requests in flight, oldest first
    lastEstimate,   \* form: the estimate request issued last, or NoRequest
    lastResponse,   \* form: how that request ended: "pending", "ok", "failed"
    changesLeft,    \* form: field and model changes the user may still make
    submitsLeft,    \* form: submit events the user may still raise
    formStable,     \* form: ticks since the content of formState last changed
    depsStable,     \* form: ticks since handleInputChange or setSelectedModel ran
    formRequested,  \* form: an estimate request carried formState since it changed
    depsRequested,  \* form: one carried formState and selectedModel since they changed
    hasCompleted,   \* form: some execution has completed
    costArgs,       \* estimator: the arguments of the estimateCost call
    costResult,     \* estimator: Pending, or the outcome of the call
    tokArgs,        \* estimator: the token helper that is called and its arguments
    tokResult,      \* estimator: Pending, or the outcome of that call
    recArgs,        \* estimator: the call of getModelRecommendations or compareModels
    recResult,      \* estimator: Pending, or the outcome of that call
    genSpec,        \* generators: the spec handed to the generators
    genClock,       \* generators: the time of day of the process
    genOutputs,     \* generators: the calls made so far and the text each returned
    initName,       \* cli: the <name> argument of the init command
    heapRegistry,   \* frame: llmRegistry and gpuPricing as the process holds them
    heapSpec,       \* frame: the FlowSpec object the caller passes
    heapInputs,     \* frame: the input values object the caller passes
    frameCalls      \* frame: the calls made so far and how each ended

valVars == <<vSpec, vResult>>
cliVars == <<cliCmd, cliOpts, cliFile, cliPc, cliFlowSpec, cliValidation,
             cliCalls, cliWritten, cliExit>>
formVars == <<mounted, disabled, formState, selectedModel, execution,
              costEstimate, view, depsDirty, timers, debounceTimer, estimates,
              runs, lastEstimate, lastResponse, changesLeft, submitsLeft,
              formStable, depsStable, formRequested, depsRequested,
              hasCompleted>>

costVars == <<costArgs, costResult>>

tokVars == <<tokArgs, tokResult>>
recVars == <<recArgs, recResult>>
genVars == <<genSpec, genClock, genOutputs>>

initVars == <<initName>>

frameVars == <<heapRegistry, heapSpec, heapInputs, frameCalls>>

vars ==
    <<valVars, cliVars, formVars, costVars, tokVars, recVars,
      genVars, initVars, frameVars>>

Pending == [kind |-> "pending"]

-----------------------------------------------------------------------------
(* JavaScript values *)

Undefined == [t |-> "undefined"]
Null == [t |-> "null"]
Bool(b) == [t |-> "boolean", v |-> b]
Num(n) == [t |-> "number", v |-> n]
Str(s) == [t |-> "string", v |-> s]
Arr(a) == [t |-> "array", v |-> a]
Obj(o) == [t |-> "object", v |-> o]

\* !v is false: undefined, null, false, 0 and "" are the falsy values.
Truthy(v) ==
    CASE v.t = "undefined" -> FALSE
      [] v.t = "null" -> FALSE
      [] v.t = "boolean" -> v.v
      [] v.t = "number" -> v.v # 0
      [] v.t = "string" -> v.v # <<>>
      [] OTHER -> TRUE

\* typeof v === 'number'
IsNumber(v) == v.t = "number"

\* Array.isArray(v)
IsArray(v) == v.t = "array"

\* v.k throws a TypeError exactly when v is undefined or null.
Nullish(v) == v.t \in {"undefined", "null"}

\* v.k for a v that is not nullish: an own property of an object, the
\* length of a string or an array, undefined otherwise.
Get(v, k) ==
    CASE v.t = "object" -> IF k \in DOMAIN v.v THEN v.v[k] ELSE Undefined
      [] v.t \in {"string", "array"} ->
            IF k = "length" THEN Num(Len(v.v)) ELSE Undefined
      [] OTHER -> Undefined

Lower == {"a", "b", "c", "d", "e", "f", "g", "h", "i", "j", "k", "l", "m",
          "n", "o", "p", "q", "r", "s", "t", "u", "v", "w", "x", "y", "z"}
Upper == {"A", "B", "C", "D", "E", "F", "G", "H", "I", "J", "K", "L", "M",
          "N", "O", "P", "Q", "R", "S", "T", "U", "V", "W", "X", "Y", "Z"}
Digit == {"0", "1", "2", "3", "4", "5", "6", "7", "8", "9"}
DigitChars == <<"0", "1", "2", "3", "4", "5", "6", "7", "8", "9">>

RECURSIVE NatToString(_)
NatToString(n) ==
    IF n < 10 THEN <<DigitChars[n + 1]>>
    ELSE NatToString(n \div 10) \o <<DigitChars[(n % 10) + 1]>>

RECURSIVE JoinValues(_, _)
RECURSIVE ToJSString(_)
\* String(v), the conversion RegExp.prototype.test applies to its argument.
ToJSString(v) ==
    CASE v.t = "string" -> v.v
      [] v.t = "number" ->
            IF v.v < 0 THEN <<"-">> \o NatToString(-v.v) ELSE NatToString(v.v)
      [] v.t = "boolean" ->
            IF v.v THEN <<"t", "r", "u", "e">> ELSE <<"f", "a", "l", "s", "e">>
      [] v.t = "null" -> <<"n", "u", "l", "l">>
      [] v.t = "undefined" -> <<"u", "n", "d", "e", "f", "i", "n", "e", "d">>
      [] v.t = "array" -> JoinValues(v.v, 1)
      [] OTHER -> <<"[", "o", "b", "j", "e", "c", "t", " ", "O", "b", "j", "e",
                    "c", "t", "]">>

\* Array.prototype.join(','): a nullish element contributes the empty string.
JoinValues(a, i) ==
    IF i > Len(a) THEN <<>>
    ELSE (IF Nullish(a[i]) THEN <<>> ELSE ToJSString(a[i]))
         \o (IF i < Len(a) THEN <<",">> \o JoinValues(a, i + 1) ELSE <<>>)

AllIn(s, chars) == \A i \in 1..Len(s) : s[i] \in chars

\* /^[a-z0-9-]{3,64}$/
MatchesFlowId(s) ==
    /\ Len(s) >= 3
    /\ Len(s) <= 64
    /\ AllIn(s, Lower \cup Digit \cup {"-"})

\* /^\d+\.\d+\.\d+$/
MatchesSemver(s) ==
    \E i, j \in 1..Len(s) :
        /\ 1 < i
        /\ i + 1 < j
        /\ j < Len(s)
        /\ s[i] = "."
        /\ s[j] = "."
        /\ \A k \in 1..Len(s) : k \notin {i, j} => s[k] \in Digit

\* /^[a-zA-Z][a-zA-Z0-9_]*$/
MatchesIdentifier(s) ==
    /\ Len(s) >= 1
    /\ s[1] \in Lower \cup Upper
    /\ AllIn(s, Lower \cup Upper \cup Digit \cup {"_"})


-----------------------------------------------------------------------------
(* validators/flow.ts *)

ParameterTypes ==
    {<<"s", "t", "r", "i", "n", "g">>,
     <<"t", "e", "x", "t">>,
     <<"n", "u", "m", "b", "e", "r">>,
     <<"b", "o", "o", "l", "e", "a", "n">>,
     <<"u", "r", "l">>,
     <<"f", "i", "l", "e">>,
     <<"j", "s", "o", "n">>,
     <<"a", "r", "r", "a", "y">>,
     <<"o", "b", "j", "e", "c", "t">>}

WidgetNames ==
    {<<"i", "n", "p", "u", "t">>,
     <<"t", "e", "x", "t", "a", "r", "e", "a">>,
     <<"s", "e", "l", "e", "c", "t">>,
     <<"c", "h", "e", "c", "k", "b", "o", "x">>,
     <<"f", "i", "l", "e">>,
     <<"u", "r", "l">>,
     <<"j", "s", "o", "n", "-", "e", "d", "i", "t", "o", "r">>}

GpuNames ==
    {<<"c", "p", "u">>,
     <<"l", "4">>,
     <<"a", "1", "0", "g">>,
     <<"a", "1", "0", "0">>,
     <<"a", "1", "0", "0", "-", "8", "0", "g", "b">>}

CategoryNames ==
    {<<"d", "a", "t", "a", "-", "p", "r", "o", "c", "e", "s", "s", "i", "n", "g">>,
     <<"c", "o", "n", "t", "e", "n", "t", "-", "g", "e", "n", "e", "r", "a", "t", "i", "o", "n">>,
     <<"w", "e", "b", "-", "s", "c", "r", "a", "p", "i", "n", "g">>,
     <<"a", "n", "a", "l", "y", "s", "i", "s">>,
     <<"a", "u", "t", "o", "m", "a", "t", "i", "o", "n">>,
     <<"o", "t", "h", "e", "r">>}

\* [...].includes(v): strict equality with one of the listed strings.
Includes(names, v) == v.t = "string" /\ v.v \in names

\* What a helper hands back: the errors it collected, or the TypeError it
\* raised on reading a property of undefined or null.
Errors(es) == [threw |-> FALSE, errors |-> es]
Threw == [threw |-> TRUE, errors |-> <<>>]

If(c, msg) == IF c THEN <<msg>> ELSE <<>>

NotNumber(v) == v.t # "undefined" /\ ~IsNumber(v)

validateParameter(param, path) ==
    IF Nullish(param) THEN Threw
    ELSE
    LET name == Get(param, "name")
        type == Get(param, "type")
        validation == Get(param, "validation")
        ui == Get(param, "ui")
        nameErrs ==
            IF ~Truthy(name) THEN <<path \o ".name is required">>
            ELSE If(~MatchesIdentifier(ToJSString(name)),
                    path \o ".name must be a valid identifier")
        typeErrs ==
            IF ~Truthy(type) THEN <<path \o ".type is required">>
            ELSE If(~Includes(ParameterTypes, type),
                    path \o ".type must be one of: string, text, number, boolean, url, file, json, array, object")
        validationErrs ==
            IF ~Truthy(validation) THEN <<>>
            ELSE If(NotNumber(Get(validation, "min")),
                    path \o ".validation.min must be a number")
              \o If(NotNumber(Get(validation, "max")),
                    path \o ".validation.max must be a number")
              \o If(NotNumber(Get(validation, "minLength")),
                    path \o ".validation.minLength must be a number")
              \o If(NotNumber(Get(validation, "maxLength")),
                    path \o ".validation.maxLength must be a number")
        uiErrs ==
            IF ~Truthy(ui) THEN <<>>
            ELSE If(Truthy(Get(ui, "widget")) /\ ~Includes(WidgetNames, Get(ui, "widget")),
                    path \o ".ui.widget must be one of: input, textarea, select, checkbox, file, url, json-editor")
              \o If(NotNumber(Get(ui, "rows")),
                    path \o ".ui.rows must be a number")
    IN Errors(nameErrs \o typeErrs \o validationErrs \o uiErrs)

\* spec.inputs.forEach((input, index) => errors.push(...validateParameter(
\* input, `inputs[${index}]`))), from element i on: the first element that
\* raises ends the loop and the call.
RECURSIVE validateParameters(_, _, _)
validateParameters(params, field, i) ==
    IF i > Len(params) THEN Errors(<<>>)
    ELSE LET first == validateParameter(params[i],
                          field \o "[" \o ToString(i - 1) \o "]")
             rest == validateParameters(params, field, i + 1)
         IN IF first.threw \/ rest.threw THEN Threw
            ELSE Errors(first.errors \o rest.errors)

OutOfRange(v, lo, hi) ==
    v.t # "undefined" /\ (~IsNumber(v) \/ v.v < lo \/ v.v > hi)

validateRuntime(runtime) ==
       If(~Truthy(Get(runtime, "image")), "runtime.image is required")
    \o If(Truthy(Get(runtime, "gpu")) /\ ~Includes(GpuNames, Get(runtime, "gpu")),
          "runtime.gpu must be one of: cpu, l4, a10g, a100, a100-80gb")
    \o If(OutOfRange(Get(runtime, "timeout"), 10, 3600),
          "runtime.timeout must be a number between 10 and 3600")
    \o If(OutOfRange(Get(runtime, "memory"), 128, 32768),
          "runtime.memory must be a number between 128 and 32768")

validateMeta(meta) ==
       If(~Truthy(Get(meta, "author")), "meta.author is required")
    \o (IF ~Truthy(Get(meta, "category")) THEN <<"meta.category is required">>
        ELSE If(~Includes(CategoryNames, Get(meta, "category")),
                "meta.category must be one of: data-processing, content-generation, web-scraping, analysis, automation, other"))
    \o If(~Truthy(Get(meta, "tags")) \/ ~IsArray(Get(meta, "tags")),
          "meta.tags must be an array")
    \o If(Truthy(Get(meta, "repository")) /\ Get(meta, "repository").t # "string",
          "meta.repository must be a string")

\* spec.name.length < 3 || spec.name.length > 100: a comparison with
\* undefined (a name that has no length) is false.
BadLength(len, lo, hi) == IsNumber(len) /\ (len.v < lo \/ len.v > hi)

idErrors(spec) ==
    IF ~Truthy(Get(spec, "id")) THEN <<"Flow ID is required">>
    ELSE If(~MatchesFlowId(ToJSString(Get(spec, "id"))),
            "Flow ID must be 3-64 characters, lowercase letters, numbers, and hyphens only")

nameErrors(spec) ==
    IF ~Truthy(Get(spec, "name")) THEN <<"Flow name is required">>
    ELSE If(BadLength(Get(Get(spec, "name"), "length"), 3, 100),
            "Flow name must be 3-100 characters")

versionErrors(spec) ==
    IF ~Truthy(Get(spec, "version")) THEN <<"Flow version is required">>
    ELSE If(~MatchesSemver(ToJSString(Get(spec, "version"))),
            "Flow version must be semantic version (e.g., 1.0.0)")

parameterErrors(spec, field) ==
    IF ~Truthy(Get(spec, field)) \/ ~IsArray(Get(spec, field))
    THEN Errors(<<"Flow " \o field \o " must be an array">>)
    ELSE validateParameters(Get(spec, field).v, field, 1)

runtimeErrors(spec) ==
    IF ~Truthy(Get(spec, "runtime")) THEN <<"Flow runtime is required">>
    ELSE validateRuntime(Get(spec, "runtime"))

metaErrors(spec) ==
    IF ~Truthy(Get(spec, "meta")) THEN <<"Flow meta is required">>
    ELSE validateMeta(Get(spec, "meta"))

Returned(es) == [kind |-> "return", valid |-> es = <<>>, errors |-> es]
Raised == [kind |-> "throw", valid |-> FALSE, errors |-> <<>>]

validateFlowSpec(spec) ==
    IF Nullish(spec) THEN Raised
    ELSE LET ins == parameterErrors(spec, "inputs")
             outs == parameterErrors(spec, "outputs")
         IN IF ins.threw \/ outs.threw THEN Raised
            ELSE Returned(idErrors(spec) \o nameErrors(spec)
                          \o versionErrors(spec) \o ins.errors \o outs.errors
                          \o runtimeErrors(spec) \o metaErrors(spec))

-----------------------------------------------------------------------------
(* The values the validator is applied to *)

MaxParams == 2

GoodParam ==
    Obj([name |-> Str(<<"t", "e", "x", "t">>), type |-> Str(<<"s", "t", "r", "i", "n", "g">>)])

\* Every per-parameter check fails on this one.
BadParam ==
    Obj([name |-> Str(<<"2", "b", "a", "d">>), type |-> Str(<<"a", "n", "y">>),
         validation |-> Obj([min |-> Str(<<"1">>), max |-> Null,
                             minLength |-> Bool(TRUE), maxLength |-> Str(<<"9">>)]),
         ui |-> Obj([widget |-> Str(<<"s", "l", "i", "d", "e", "r">>), rows |-> Str(<<"3">>)])])

\* Bounds that are numbers, the lower one above the upper one.
ReversedBoundsParam ==
    Obj([name |-> Str(<<"t", "e", "x", "t">>), type |-> Str(<<"n", "u", "m", "b", "e", "r">>),
         validation |-> Obj([min |-> Num(9), max |-> Num(1)])])

ParamSamples == {GoodParam, BadParam, Null, Str(<<"t", "e", "x", "t">>)}

SeqsUpTo(S, n) == UNION {[1..k -> S] : k \in 0..n}

\* What inputs can be: absent, no array, or an array of up to n elements.
InputsSamples(n) ==
    {Undefined, Str(<<"t", "e", "x", "t">>)} \cup {Arr(a) : a \in SeqsUpTo(ParamSamples, n)}

OutputsSamples ==
    {Undefined, Arr(<<>>), Arr(<<GoodParam>>), Arr(<<Undefined>>),
     Arr(<<GoodParam, BadParam>>), Arr(<<GoodParam, ReversedBoundsParam>>)}

IdSamples == {Undefined, Str(<<"a", "b">>), Str(<<"c", "l", "u", "s", "t", "e", "r", "-", "k", "e", "y", "w", "o", "r", "d", "s">>), Num(123)}

NameSamples == {Null, Str(<<"a", "b">>), Str(<<"C", "l", "u", "s", "t", "e", "r", " ", "K", "e", "y", "w", "o", "r", "d", "s">>)}

VersionSamples == {Undefined, Str(<<"1", ".", "0">>), Str(<<"1", ".", "0", ".", "0">>)}

GoodRuntime ==
    Obj([image |-> Str(<<"c", "l", "o", "s", "e", "d", "a", "i", "/", "p", "y", "t", "h", "o", "n", ":", "3", ".", "1", "1">>), gpu |-> Str(<<"c", "p", "u">>),
         timeout |-> Num(300), memory |-> Num(1024)])

\* Every runtime check fails on this one.
BadRuntime ==
    Obj([image |-> Str(<<>>), gpu |-> Str(<<"t", "p", "u">>),
         timeout |-> Num(5), memory |-> Str(<<"1", "g">>)])

RuntimeSamples == {Undefined, GoodRuntime, BadRuntime}

GoodMeta ==
    Obj([author |-> Str(<<"C", "L", "O", "S", "E", "D", " ", "A", "I", " ", "U", "s", "e", "r">>), category |-> Str(<<"a", "u", "t", "o", "m", "a", "t", "i", "o", "n">>),
         tags |-> Arr(<<Str(<<"e", "x", "a", "m", "p", "l", "e">>)>>)])

\* Every meta check fails on this one.
BadMeta ==
    Obj([author |-> Null, category |-> Str(<<"m", "i", "s", "c">>), tags |-> Str(<<"e", "x", "a", "m", "p", "l", "e">>),
         repository |-> Num(7)])

MetaSamples == {Null, GoodMeta, BadMeta}

FlowSpecObjects(maxParams) ==
    {Obj([id |-> i, name |-> n, version |-> v, inputs |-> ins, outputs |-> outs,
          runtime |-> r, meta |-> m]) :
        i \in IdSamples, n \in NameSamples, v \in VersionSamples,
        ins \in InputsSamples(maxParams), outs \in OutputsSamples,
        r \in RuntimeSamples, m \in MetaSamples}

ValidFlowSpec ==
    Obj([id |-> Str(<<"c", "l", "u", "s", "t", "e", "r", "-", "k", "e", "y", "w", "o", "r", "d", "s">>), name |-> Str(<<"C", "l", "u", "s", "t", "e", "r", " ", "K", "e", "y", "w", "o", "r", "d", "s">>),
         version |-> Str(<<"1", ".", "0", ".", "0">>),
         inputs |-> Arr(<<GoodParam>>), outputs |-> Arr(<<GoodParam>>),
         runtime |-> GoodRuntime, meta |-> GoodMeta])

\* The same spec with a field the schema does not know.
ExtraFieldFlowSpec ==
    Obj([id |-> Str(<<"c", "l", "u", "s", "t", "e", "r", "-", "k", "e", "y", "w", "o", "r", "d", "s">>), name |-> Str(<<"C", "l", "u", "s", "t", "e", "r", " ", "K", "e", "y", "w", "o", "r", "d", "s">>),
         version |-> Str(<<"1", ".", "0", ".", "0">>),
         inputs |-> Arr(<<GoodParam>>), outputs |-> Arr(<<GoodParam>>),
         runtime |-> GoodRuntime, meta |-> GoodMeta, homepage |-> Num(1)])

EmptyObject == Obj([k \in {} |-> Undefined])

FlowSpecSamples(maxParams) ==
    FlowSpecObjects(maxParams)
    \cup {Null, Undefined, EmptyObject, ExtraFieldFlowSpec}

\* A caller applies validateFlowSpec to the value it holds.
ValidateFlowSpec ==
    /\ vResult = Pending
    /\ vResult' = validateFlowSpec(vSpec)
    /\ UNCHANGED vSpec

-----------------------------------------------------------------------------
(* cli.ts: the generate and validate commands *)

Missing == [kind |-> "missing"]
Unparsable == [kind |-> "unparsable"]
JsonFile(v) == [kind |-> "json", content |-> v]

\* Valid for the validator although inputs holds a null: never reached,
\* validateParameter raises first.
NullInputFlowSpec ==
    Obj([id |-> Str(<<"c", "l", "u", "s", "t", "e", "r", "-", "k", "e", "y", "w", "o", "r", "d", "s">>), name |-> Str(<<"C", "l", "u", "s", "t", "e", "r", " ", "K", "e", "y", "w", "o", "r", "d", "s">>),
         version |-> Str(<<"1", ".", "0", ".", "0">>),
         inputs |-> Arr(<<Null>>), outputs |-> Arr(<<GoodParam>>),
         runtime |-> GoodRuntime, meta |-> GoodMeta])

\* Passes the validator: /^[a-z0-9-]{3,64}$/.test(123) converts 123 to "123".
NumericIdFlowSpec ==
    Obj([id |-> Num(123), name |-> Str(<<"C", "l", "u", "s", "t", "e", "r", " ", "K", "e", "y", "w", "o", "r", "d", "s">>),
         version |-> Str(<<"1", ".", "0", ".", "0">>),
         inputs |-> Arr(<<GoodParam>>), outputs |-> Arr(<<GoodParam>>),
         runtime |-> GoodRuntime, meta |-> GoodMeta])

InvalidFlowSpec ==
    Obj([id |-> Str(<<"c", "l", "u", "s", "t", "e", "r", "-", "k", "e", "y", "w", "o", "r", "d", "s">>), name |-> Undefined,
         version |-> Str(<<"1", ".", "0">>),
         inputs |-> Arr(<<BadParam>>), outputs |-> Undefined,
         runtime |-> BadRuntime, meta |-> BadMeta])

CliFiles ==
    {Missing, Unparsable}
    \cup {JsonFile(v) : v \in {ValidFlowSpec, ExtraFieldFlowSpec, EmptyObject,
                               Null, Num(5), NullInputFlowSpec,
                               NumericIdFlowSpec, InvalidFlowSpec}}

\* process.exit(code), or the process ending when the action returned.
Exit(code) ==
    /\ cliPc' = "exited"
    /\ cliExit' = Num(code)

\* generate: fs.statSync, fs.existsSync and fs.readJson; validate:
\* fs.readJson. A path that is missing or does not hold JSON raises, and
\* the catch block exits with 1.
CliLoad ==
    /\ cliPc = "start"
    /\ IF cliFile.kind = "json"
       THEN /\ cliFlowSpec' = cliFile.content
            /\ cliPc' = "loaded"
            /\ UNCHANGED cliExit
       ELSE /\ Exit(1)
            /\ UNCHANGED cliFlowSpec
    /\ UNCHANGED <<cliCmd, cliOpts, cliFile, cliValidation, cliCalls, cliWritten>>

\* A gate that lets every returned result through, valid or not.
anyResult(validation) == validation.kind = "return"

\* if (!validation.valid) throw: generation goes on only for a result that
\* says valid; a validator that raised never handed a result back.
mayGenerate(validation) == validation.kind = "return" /\ validation.valid

GenerateValidate ==
    /\ cliCmd = "generate"
    /\ cliPc = "loaded"
    /\ cliValidation' = validateFlowSpec(cliFlowSpec)
    /\ IF mayGenerate(cliValidation')
       THEN /\ cliPc' = "validated"
            /\ UNCHANGED cliExit
       ELSE Exit(1)
    /\ UNCHANGED <<cliCmd, cliOpts, cliFile, cliFlowSpec, cliCalls, cliWritten>>

\* await fs.ensureDir(options.output)
GenerateEnsureDir ==
    /\ cliCmd = "generate"
    /\ cliPc = "validated"
    /\ \E ok \in BOOLEAN :
          IF ok THEN cliPc' = "dirReady" /\ UNCHANGED cliExit ELSE Exit(1)
    /\ UNCHANGED <<cliCmd, cliOpts, cliFile, cliFlowSpec, cliValidation,
                   cliCalls, cliWritten>>

\* Both generators start with toPascalCase(spec.id), str.split('-'): a
\* TypeError for an id that is not a string.
generatorRaises(spec) == Get(spec, "id").t # "string"

Artifact(kind, spec) == [kind |-> kind, id |-> ToJSString(Get(spec, "id"))]

\* One generator and the fs.writeFile of its text, or nothing when the
\* option switches the artifact off.
GenerateStep(skip, generator, kind, next) ==
    IF skip
    THEN /\ cliPc' = next
         /\ UNCHANGED <<cliCalls, cliWritten, cliExit>>
    ELSE /\ cliCalls' = Append(cliCalls, generator)
         /\ \E written \in BOOLEAN :
               IF written /\ ~generatorRaises(cliFlowSpec)
               THEN /\ cliWritten' = cliWritten \cup {Artifact(kind, cliFlowSpec)}
                    /\ cliPc' = next
                    /\ UNCHANGED cliExit
               ELSE /\ Exit(1)
                    /\ UNCHANGED cliWritten

GenerateTypes ==
    /\ cliCmd = "generate"
    /\ cliPc = "dirReady"
    /\ GenerateStep(cliOpts.componentOnly, "generateTypeScriptTypes", "types",
                    "typesDone")
    /\ UNCHANGED <<cliCmd, cliOpts, cliFile, cliFlowSpec, cliValidation>>

GenerateComponent ==
    /\ cliCmd = "generate"
    /\ cliPc = "typesDone"
    /\ GenerateStep(cliOpts.typesOnly, "generateReactComponent", "component",
                    "componentDone")
    /\ UNCHANGED <<cliCmd, cliOpts, cliFile, cliFlowSpec, cliValidation>>

\* The action returned: the process ends with code 0.
GenerateDone ==
    /\ cliCmd = "generate"
    /\ cliPc = "componentDone"
    /\ Exit(0)
    /\ UNCHANGED <<cliCmd, cliOpts, cliFile, cliFlowSpec, cliValidation,
                   cliCalls, cliWritten>>

\* A validate command that reports and ends normally whatever the result.
alwaysSucceeds(validation) == 0

\* validate: spinner.succeed and a return for a valid spec, the error list
\* and process.exit(1) otherwise; a validator that raised lands in the
\* catch block, process.exit(1).
validateExitCode(validation) ==
    IF validation.kind = "return" /\ validation.valid THEN 0 ELSE 1

ValidateCommand ==
    /\ cliCmd = "validate"
    /\ cliPc = "loaded"
    /\ cliValidation' = validateFlowSpec(cliFlowSpec)
    /\ Exit(validateExitCode(cliValidation'))
    /\ UNCHANGED <<cliCmd, cliOpts, cliFile, cliFlowSpec, cliCalls, cliWritten>>

-----------------------------------------------------------------------------
(* generators/react.ts: the run-time behaviour of the emitted component *)

MaxChanges == 2
MaxSubmits == 2
\* The 500 ms of setTimeout(estimateCost, 500), in ticks of the clock.
DebounceTicks == 2

\* The contents the form takes; handleInputChange stores a new object even
\* for a content equal to the present one.
FormValues == {"draft", "edited"}
\* Two of the six options of the model select.
ModelOptions == {"llama3-8b-q4", "llama3-70b-q4"}

\* No timer is pending.
NoTimers == <<>>
NoRequest == [kind |-> "none"]

Idle == [isRunning |-> FALSE, result |-> Null, error |-> Null, cost |-> Null]
Running == [isRunning |-> TRUE, result |-> Null, error |-> Null, cost |-> Null]

\* What a run request ends with. ok: a 2xx response whose body parses, with
\* its data and cost_usd (costs in micro-dollars) and what the onResult prop
\* then does. error: fetch rejected, the status was not ok, or the body was
\* no JSON; message is the message of the Error raised.
RunOutcomes ==
    [kind : {"ok"},
     data : {Obj([clusters |-> Num(3)]), Null},
     cost : {Num(0), Num(1200)},
     onResult : {"returns", "throws"}]
    \cup [kind : {"error"},
          message : {Str(<<"H", "T", "T", "P", " ", "e", "r", "r", "o", "r", "!", " ", "s", "t", "a", "t", "u", "s", ":", " ", "5", "0", "0">>), Str(<<>>)}]

CallbackMessage == Str(<<"o", "n", "R", "e", "s", "u", "l", "t", " ", "f", "a", "i", "l", "e", "d">>)
FallbackMessage == Str(<<"A", "n", " ", "e", "r", "r", "o", "r", " ", "o", "c", "c", "u", "r", "r", "e", "d">>)

\* error.message || 'An error occurred'
messageOrFallback(message) == IF Truthy(message) THEN message ELSE FallbackMessage

Failed(message) ==
    [isRunning |-> FALSE, result |-> Null, error |-> messageOrFallback(message),
     cost |-> Null]

\* A handleSubmit whose onResult is called outside of the try block: when
\* it throws, nothing sets isRunning back.
uncaughtExecution(outcome) ==
    IF outcome.kind = "ok"
    THEN IF outcome.onResult = "throws"
         THEN Running
         ELSE [isRunning |-> FALSE, result |-> outcome.data, error |-> Null,
               cost |-> outcome.cost]
    ELSE Failed(outcome.message)

\* The execution state handleSubmit leaves behind once its request ended:
\* the last setExecution it ran.
completedExecution(outcome) ==
    IF outcome.kind = "ok"
    THEN IF outcome.onResult = "throws"
         THEN Failed(CallbackMessage)
         ELSE [isRunning |-> FALSE, result |-> outcome.data, error |-> Null,
               cost |-> outcome.cost]
    ELSE Failed(outcome.message)

\* if (disabled || execution.isRunning) return; read from the render the
\* handler belongs to.
submitRejected(v) == v.disabled \/ v.execution.isRunning

\* A timer set one tick longer than the debounce interval.
scheduleLate(form, model) ==
    [kind |-> "timer", formState |-> form, selectedModel |-> model,
     left |-> DebounceTicks + 1]

\* const debounceTimer = setTimeout(estimateCost, 500): estimateCost closes
\* over the formState and selectedModel of the render that ran the effect.
scheduleEstimate(form, model) ==
    [kind |-> "timer", formState |-> form, selectedModel |-> model,
     left |-> DebounceTicks]

Current == [formState |-> formState, selectedModel |-> selectedModel,
            execution |-> execution, disabled |-> disabled]

RenderPending == depsDirty \/ view # Current

Min(a, b) == IF a < b THEN a ELSE b

\* The requests in flight without the i-th, which ended.
Remove(s, i) == SubSeq(s, 1, i - 1) \o SubSeq(s, i + 1, Len(s))

\* setTimeout(callback, delay), returning id: the timer joins the pending ones.
setTimeout(table, id, callback) ==
    [i \in DOMAIN table \cup {id} |-> IF i = id THEN callback ELSE table[i]]

\* A cleanup that leaves the timer of the previous run pending.
keepTimeout(table, id) == table

\* clearTimeout(id): the timer with this id, if it is pending, is dropped.
clearTimeout(table, id) == [i \in DOMAIN table \ {id} |-> table[i]]

TimerDue == \E id \in DOMAIN timers : timers[id].left = 0

\* {execution.error && (...)}, {execution.result && (...)} and, inside the
\* result panel, {execution.cost && (<span>Cost: ...</span>)}: the span for
\* a cost that is truthy; for a cost of 0 the expression is 0 itself and
\* React puts out the bare text 0, for null or undefined nothing.
ErrorPanel(v) == Truthy(v.execution.error)
ResultPanel(v) == Truthy(v.execution.result)
CostShown(v) == ResultPanel(v) /\ Truthy(v.execution.cost)

\* handleInputChange(name, value): setFormState(prev => ({...prev, [name]: value}))
HandleInputChange(value) ==
    /\ mounted
    /\ changesLeft > 0
    /\ formState' = value
    /\ depsDirty' = TRUE
    /\ changesLeft' = changesLeft - 1
    /\ formStable' = IF value = formState THEN formStable ELSE 0
    /\ formRequested' = (value = formState /\ formRequested)
    /\ depsStable' = 0
    /\ depsRequested' = FALSE
    /\ UNCHANGED <<mounted, disabled, selectedModel, execution, costEstimate,
                   view, timers, debounceTimer, estimates, runs,
                   lastEstimate, lastResponse, submitsLeft, hasCompleted>>

\* onChange of the model select: setSelectedModel(e.target.value)
SetSelectedModel(model) ==
    /\ mounted
    /\ changesLeft > 0
    /\ model # selectedModel
    /\ selectedModel' = model
    /\ depsDirty' = TRUE
    /\ changesLeft' = changesLeft - 1
    /\ depsStable' = 0
    /\ depsRequested' = FALSE
    /\ UNCHANGED <<mounted, disabled, formState, execution, costEstimate, view,
                   timers, debounceTimer, estimates, runs, lastEstimate,
                   lastResponse, submitsLeft, formStable, formRequested,
                   hasCompleted>>

\* React renders with the present state; when a dependency of the effect
\* changed, the effect's cleanup clears the old timer and the effect sets a
\* new one.
Render ==
    /\ mounted
    /\ RenderPending
    /\ view' = Current
    /\ depsDirty' = FALSE
    /\ IF depsDirty
       THEN /\ timers' = setTimeout(clearTimeout(timers, debounceTimer),
                                    debounceTimer + 1,
                                    scheduleEstimate(formState, selectedModel))
            /\ debounceTimer' = debounceTimer + 1
       ELSE UNCHANGED <<timers, debounceTimer>>
    /\ UNCHANGED <<mounted, disabled, formState, selectedModel, execution,
                   costEstimate, estimates, runs, lastEstimate, lastResponse,
                   changesLeft, submitsLeft, formStable, depsStable,
                   formRequested, depsRequested, hasCompleted>>

\* One tick of the clock. A render takes no time, and a timer that is due
\* runs before the clock moves on.
Tick ==
    /\ mounted
    /\ ~RenderPending
    /\ ~TimerDue
    /\ (DOMAIN timers # {}) \/ (formStable < DebounceTicks) \/ (depsStable < DebounceTicks)
    /\ timers' = [id \in DOMAIN timers |->
                     [timers[id] EXCEPT !.left = timers[id].left - 1]]
    /\ formStable' = Min(formStable + 1, DebounceTicks)
    /\ depsStable' = Min(depsStable + 1, DebounceTicks)
    /\ UNCHANGED <<mounted, disabled, formState, selectedModel, execution,
                   costEstimate, view, depsDirty, debounceTimer, estimates,
                   runs, lastEstimate, lastResponse, changesLeft, submitsLeft,
                   formRequested, depsRequested, hasCompleted>>

\* The timer runs estimateCost: fetch('/api/flows/estimate') with the
\* formState and selectedModel the closure holds.
TimerFires ==
    /\ \E id \in DOMAIN timers :
          LET timer == timers[id]
              request == [formState |-> timer.formState,
                          selectedModel |-> timer.selectedModel]
          IN /\ timer.left = 0
             /\ estimates' = Append(estimates, request)
             /\ lastEstimate' = request
             /\ lastResponse' = "pending"
             /\ timers' = [i \in DOMAIN timers \ {id} |-> timers[i]]
             /\ formRequested' = (formRequested \/ timer.formState = formState)
             /\ depsRequested' =
                    (depsRequested \/ (/\ timer.formState = formState
                                      /\ timer.selectedModel = selectedModel))
    /\ UNCHANGED <<mounted, disabled, formState, selectedModel, execution,
                   costEstimate, view, depsDirty, debounceTimer, runs,
                   changesLeft,
                   submitsLeft, formStable, depsStable, hasCompleted>>

\* An estimate request ends: setCostEstimate(data.total_cost_usd), or the
\* catch block, which only logs. A component that is no longer mounted
\* keeps its state.
EstimateResponds(i, ok) ==
    /\ i \in DOMAIN estimates
    /\ estimates' = Remove(estimates, i)
    /\ costEstimate' = IF ok /\ mounted THEN estimates[i] ELSE costEstimate
    /\ lastResponse' = IF lastResponse = "pending" /\ i = Len(estimates)
                       THEN IF ok THEN "ok" ELSE "failed"
                       ELSE lastResponse
    /\ UNCHANGED <<mounted, disabled, formState, selectedModel, execution,
                   view, depsDirty, timers, debounceTimer, runs, lastEstimate,
                   changesLeft, submitsLeft, formStable, depsStable,
                   formRequested, depsRequested, hasCompleted>>

\* A submit event runs the handleSubmit of the last render up to its first
\* await: the guard, setExecution(running) and the fetch of /api/flows/run.
Submit ==
    /\ mounted
    /\ submitsLeft > 0
    /\ submitsLeft' = submitsLeft - 1
    /\ IF submitRejected(view)
       THEN UNCHANGED <<execution, runs>>
       ELSE /\ execution' = Running
            /\ runs' = Append(runs, [formState |-> view.formState,
                                     selectedModel |-> view.selectedModel])
    /\ UNCHANGED <<mounted, disabled, formState, selectedModel, costEstimate,
                   view, depsDirty, timers, debounceTimer, estimates,
                   lastEstimate, lastResponse, changesLeft, formStable,
                   depsStable, formRequested, depsRequested, hasCompleted>>

\* A run request ends and handleSubmit runs to its end.
RunResponds(i, outcome) ==
    /\ i \in DOMAIN runs
    /\ runs' = Remove(runs, i)
    /\ execution' = IF mounted THEN completedExecution(outcome) ELSE execution
    /\ hasCompleted' = TRUE
    /\ UNCHANGED <<mounted, disabled, formState, selectedModel, costEstimate,
                   view, depsDirty, timers, debounceTimer, estimates,
                   lastEstimate, lastResponse, changesLeft, submitsLeft,
                   formStable, depsStable, formRequested, depsRequested>>

\* The effect's cleanup runs on unmount: clearTimeout(debounceTimer).
Unmount ==
    /\ mounted
    /\ mounted' = FALSE
    /\ timers' = clearTimeout(timers, debounceTimer)
    /\ UNCHANGED <<disabled, formState, selectedModel, execution, costEstimate,
                   view, depsDirty, debounceTimer, estimates, runs,
                   lastEstimate, lastResponse, changesLeft, submitsLeft, formStable, depsStable,
                   formRequested, depsRequested, hasCompleted>>

-----------------------------------------------------------------------------
(* cost/estimator.ts *)

\* data/llm-registry.json, imported as llmRegistry: the entries in file
\* order. Prices are in micro-dollars per 1000 tokens, quality scores in
\* hundredths.
llmRegistry ==
    <<[id |-> Str(<<"l", "l", "a", "m", "a", "3", "-", "8", "b", "-", "q", "4">>),
       quality_score |-> 72, price_per_1k_tokens_input_usd |-> 200,
       price_per_1k_tokens_output_usd |-> 200, tokens_per_second |-> 50,
       recommended_for |->
           <<Str(<<"k", "e", "y", "w", "o", "r", "d", "_", "c", "l", "u", "s", "t", "e", "r", "i", "n", "g">>),
             Str(<<"s", "i", "m", "p", "l", "e", "_", "a", "n", "a", "l", "y", "s", "i", "s">>),
             Str(<<"q", "u", "i", "c", "k", "_", "p", "r", "o", "c", "e", "s", "s", "i", "n", "g">>)>>,
       status |-> Str(<<"a", "c", "t", "i", "v", "e">>)],
      [id |-> Str(<<"l", "l", "a", "m", "a", "3", "-", "7", "0", "b", "-", "q", "4">>),
       quality_score |-> 88, price_per_1k_tokens_input_usd |-> 900,
       price_per_1k_tokens_output_usd |-> 900, tokens_per_second |-> 20,
       recommended_for |->
           <<Str(<<"r", "e", "a", "s", "o", "n", "i", "n", "g">>),
             Str(<<"c", "o", "m", "p", "l", "e", "x", "_", "a", "n", "a", "l", "y", "s", "i", "s">>),
             Str(<<"c", "o", "n", "t", "e", "n", "t", "_", "g", "e", "n", "e", "r", "a", "t", "i", "o", "n">>)>>,
       status |-> Str(<<"a", "c", "t", "i", "v", "e">>)],
      [id |-> Str(<<"g", "p", "t", "-", "4", "o">>),
       quality_score |-> 95, price_per_1k_tokens_input_usd |-> 5000,
       price_per_1k_tokens_output_usd |-> 15000, tokens_per_second |-> 80,
       recommended_for |->
           <<Str(<<"r", "e", "a", "s", "o", "n", "i", "n", "g">>),
             Str(<<"c", "o", "m", "p", "l", "e", "x", "_", "a", "n", "a", "l", "y", "s", "i", "s">>),
             Str(<<"m", "u", "l", "t", "i", "_", "s", "t", "e", "p", "_", "a", "g", "e", "n", "t", "s">>),
             Str(<<"c", "r", "e", "a", "t", "i", "v", "e", "_", "t", "a", "s", "k", "s">>)>>,
       status |-> Str(<<"a", "c", "t", "i", "v", "e">>)],
      [id |-> Str(<<"m", "i", "s", "t", "r", "a", "l", "-", "7", "b", "-", "q", "4">>),
       quality_score |-> 70, price_per_1k_tokens_input_usd |-> 150,
       price_per_1k_tokens_output_usd |-> 150, tokens_per_second |-> 60,
       recommended_for |->
           <<Str(<<"s", "i", "m", "p", "l", "e", "_", "a", "n", "a", "l", "y", "s", "i", "s">>),
             Str(<<"d", "a", "t", "a", "_", "e", "x", "t", "r", "a", "c", "t", "i", "o", "n">>),
             Str(<<"b", "a", "t", "c", "h", "_", "p", "r", "o", "c", "e", "s", "s", "i", "n", "g">>)>>,
       status |-> Str(<<"a", "c", "t", "i", "v", "e">>)],
      [id |-> Str(<<"l", "l", "a", "m", "a", "2", "-", "1", "3", "b", "-", "q", "4">>),
       quality_score |-> 75, price_per_1k_tokens_input_usd |-> 400,
       price_per_1k_tokens_output_usd |-> 400, tokens_per_second |-> 35,
       recommended_for |->
           <<Str(<<"d", "a", "t", "a", "_", "e", "x", "t", "r", "a", "c", "t", "i", "o", "n">>),
             Str(<<"t", "e", "x", "t", "_", "p", "r", "o", "c", "e", "s", "s", "i", "n", "g">>)>>,
       status |-> Str(<<"d", "e", "p", "r", "e", "c", "a", "t", "e", "d">>)]>>

\* data/gpu-pricing.json, imported as gpuPricing: the own properties of the
\* object. Prices are in micro-dollars per second.
gpuPricing ==
    [k \in GpuNames |->
        Obj([price_per_second_usd |->
                Num(CASE k = <<"c", "p", "u">> -> 10
                      [] k = <<"l", "4">> -> 220
                      [] k = <<"a", "1", "0", "g">> -> 300
                      [] k = <<"a", "1", "0", "0">> -> 1100
                      [] OTHER -> 1400)])]

\* The properties every object literal and every parsed JSON object
\* inherits from Object.prototype.
ObjectPrototypeKeys ==
    {<<"c", "o", "n", "s", "t", "r", "u", "c", "t", "o", "r">>,
     <<"t", "o", "S", "t", "r", "i", "n", "g">>,
     <<"t", "o", "L", "o", "c", "a", "l", "e", "S", "t", "r", "i", "n", "g">>,
     <<"v", "a", "l", "u", "e", "O", "f">>,
     <<"h", "a", "s", "O", "w", "n", "P", "r", "o", "p", "e", "r", "t", "y">>,
     <<"i", "s", "P", "r", "o", "t", "o", "t", "y", "p", "e", "O", "f">>,
     <<"p", "r", "o", "p", "e", "r", "t", "y", "I", "s", "E", "n", "u", "m", "e", "r", "a", "b", "l", "e">>,
     <<"_", "_", "p", "r", "o", "t", "o", "_", "_">>,
     <<"_", "_", "d", "e", "f", "i", "n", "e", "G", "e", "t", "t", "e", "r", "_", "_">>,
     <<"_", "_", "d", "e", "f", "i", "n", "e", "S", "e", "t", "t", "e", "r", "_", "_">>,
     <<"_", "_", "l", "o", "o", "k", "u", "p", "G", "e", "t", "t", "e", "r", "_", "_">>,
     <<"_", "_", "l", "o", "o", "k", "u", "p", "S", "e", "t", "t", "e", "r", "_", "_">>}

Inherited(k) == [t |-> "function", v |-> k]

\* table[key] for a table that is a plain object: an own property, one
\* inherited from Object.prototype, or undefined.
LookupProperty(table, key) ==
    IF key \in DOMAIN table THEN table[key]
    ELSE IF key \in ObjectPrototypeKeys THEN Inherited(key)
    ELSE Undefined

\* A lookup that falls back to the first entry of the registry.
findModelOrFirst(modelId) ==
    IF \E i \in DOMAIN llmRegistry : llmRegistry[i].id = modelId
    THEN [found |-> TRUE,
          model |-> llmRegistry[CHOOSE i \in DOMAIN llmRegistry :
                                   llmRegistry[i].id = modelId]]
    ELSE [found |-> TRUE, model |-> llmRegistry[1]]

\* llmRegistry.find(m => m.id === modelId): the first entry with the id, or
\* undefined.
findModel(modelId) ==
    IF \E i \in DOMAIN llmRegistry : llmRegistry[i].id = modelId
    THEN LET i == CHOOSE i \in DOMAIN llmRegistry :
                    /\ llmRegistry[i].id = modelId
                    /\ \A j \in 1..(i - 1) : llmRegistry[j].id # modelId
         IN [found |-> TRUE, model |-> llmRegistry[i]]
    ELSE [found |-> FALSE]

\* const gpu = gpuPricing[gpuType]
findGpu(gpuType) == LookupProperty(gpuPricing, gpuType.v)

RECURSIVE GCD(_, _)
GCD(a, b) == IF b = 0 THEN a ELSE GCD(b, a % b)

Abs(n) == IF n < 0 THEN -n ELSE n

\* The number n / d, d > 0, in lowest terms.
Ratio(n, d) ==
    LET g == GCD(Abs(n), d)
    IN [num |-> n \div g, den |-> d \div g]

NaN == [nan |-> TRUE]
IsNaN(x) == "nan" \in DOMAIN x

Plus(x, y) ==
    IF IsNaN(x) \/ IsNaN(y) THEN NaN
    ELSE Ratio(x.num * y.den + y.num * x.den, x.den * y.den)

Times(x, y) ==
    IF IsNaN(x) \/ IsNaN(y) THEN NaN
    ELSE Ratio(x.num * y.num, x.den * y.den)

\* Number(v) for the values a price can be: a number, or undefined, which
\* is NaN.
ToNumber(v) == IF v.t = "number" THEN Ratio(v.v, 1) ELSE NaN

RECURSIVE SumOver(_, _)
\* The sum of f[x] over the x of S.
SumOver(S, f) ==
    IF S = {} THEN 0
    ELSE LET x == CHOOSE x \in S : TRUE
         IN f[x] + SumOver(S \ {x}, f)

RECURSIVE JSONLength(_)
\* JSON.stringify(v).length for a v it serializes; a property that is
\* undefined is left out and an array element that is undefined is null.
JSONLength(v) ==
    CASE v.t = "string" ->
            2 + Len(v.v) + Cardinality({i \in 1..Len(v.v) : v.v[i] \in {"\"", "\\"}})
      [] v.t = "number" -> Len(ToJSString(v))
      [] v.t = "boolean" -> Len(ToJSString(v))
      [] v.t = "array" ->
            2 + SumOver(DOMAIN v.v,
                        [i \in DOMAIN v.v |->
                            IF v.v[i].t = "undefined" THEN 4 ELSE JSONLength(v.v[i])])
              + (IF Len(v.v) > 0 THEN Len(v.v) - 1 ELSE 0)
      [] v.t = "object" ->
            LET keys == {k \in DOMAIN v.v : v.v[k].t # "undefined"}
            IN 2 + SumOver(keys, [k \in keys |-> Len(k) + 3 + JSONLength(v.v[k])])
                 + (IF keys # {} THEN Cardinality(keys) - 1 ELSE 0)
      [] OTHER -> 4

\* A count of the characters of string values alone.
stringCharsOnly(value) == IF value.t = "string" THEN Len(value.v) ELSE 0

\* What one entry of Object.entries(inputs) adds to totalChars.
valueChars(value) ==
    IF value.t = "string" THEN Len(value.v)
    ELSE IF value.t \in {"object", "array"} THEN JSONLength(value)
    ELSE Len(ToJSString(value))

Max(a, b) == IF a > b THEN a ELSE b

\* The values of Object.entries(inputs): the own properties of an object,
\* the elements of an array, the characters of a string, nothing for a
\* number or a boolean.
entriesOf(inputs) ==
    CASE inputs.t \in {"object", "array"} -> inputs.v
      [] inputs.t = "string" -> [i \in DOMAIN inputs.v |-> Str(<<inputs.v[i]>>)]
      [] OTHER -> <<>>

\* An estimate of three characters per token.
threeCharsPerToken(inputs) ==
    LET entries == entriesOf(inputs)
        totalChars == SumOver(DOMAIN entries,
                              [k \in DOMAIN entries |-> valueChars(entries[k])])
    IN Max(100, totalChars \div 3)

\* Math.max(100, Math.floor(totalChars / 4)), for inputs that
\* Object.entries accepts.
estimateTokensFromInputs(inputs) ==
    LET entries == entriesOf(inputs)
        totalChars == SumOver(DOMAIN entries,
                              [k \in DOMAIN entries |-> valueChars(entries[k])])
    IN Max(100, totalChars \div 4)

\* The own properties of flowEstimates.
flowEstimates(input) ==
    (<<"c", "l", "u", "s", "t", "e", "r", "-", "k", "e", "y", "w", "o", "r", "d", "s">> :> Num(Min(500, input \div 2)))
    @@ (<<"c", "r", "a", "w", "l", "4", "c", "o", "n", "t", "a", "c", "t", "s">> :> Num(Min(2000, input * 2)))
    @@ (<<"g", "e", "n", "e", "r", "a", "t", "e", "-", "b", "l", "o", "g">> :> Num(Min(4000, input * 3)))
    @@ (<<"a", "n", "a", "l", "y", "z", "e", "-", "s", "e", "n", "t", "i", "m", "e", "n", "t">> :> Num(Min(200, input \div 4)))
    @@ (<<"e", "x", "t", "r", "a", "c", "t", "-", "d", "a", "t", "a">> :> Num(Min(1000, input)))
    @@ (<<"s", "u", "m", "m", "a", "r", "i", "z", "e", "-", "t", "e", "x", "t">> :> Num(Min(800, input \div 3)))
    @@ (<<"t", "r", "a", "n", "s", "l", "a", "t", "e", "-", "t", "e", "x", "t">> :> Num(Min(1200, input)))
    @@ (<<"c", "l", "a", "s", "s", "i", "f", "y", "-", "c", "o", "n", "t", "e", "n", "t">> :> Num(Min(300, input \div 5)))

\* What estimator(inputTokens) hands back in place of a number.
Raises == [raises |-> TRUE]

\* An inherited property called as estimator(inputTokens), with no this:
\* Object hands back a Number object of the same value, toString the
\* string "[object Undefined]" (no number in the arithmetic that follows),
\* isPrototypeOf false (0 in that arithmetic); the others raise a
\* TypeError (valueOf, hasOwnProperty, ... convert this to an object;
\* __proto__ is no function).
inheritedEstimate(key, inputTokens) ==
    CASE key = <<"c", "o", "n", "s", "t", "r", "u", "c", "t", "o", "r">> -> Ratio(inputTokens, 1)
      [] key = <<"t", "o", "S", "t", "r", "i", "n", "g">> -> NaN
      [] key = <<"i", "s", "P", "r", "o", "t", "o", "t", "y", "p", "e", "O", "f">> -> Ratio(0, 1)
      [] OTHER -> Raises

\* flowEstimates[flowId] || (input => Math.min(1000, input)), applied to
\* inputTokens. The lookup finds inherited properties too.
estimateOutputTokens(flowId, inputTokens) ==
    LET estimator == LookupProperty(flowEstimates(inputTokens), flowId)
    IN CASE estimator.t = "undefined" -> Ratio(Min(1000, inputTokens), 1)
         [] estimator.t = "number" -> Ratio(estimator.v, 1)
         [] OTHER -> inheritedEstimate(estimator.v, inputTokens)

ModelNotFound(modelId) == [kind |-> "throw", error |-> "Model not found", id |-> modelId]
GpuNotFound(gpuType) == [kind |-> "throw", error |-> "GPU type not found", id |-> gpuType]
TypeError == [kind |-> "throw", error |-> "TypeError", id |-> Undefined]

\* A parameter that is undefined takes its default.
OrDefault(arg, default) == IF arg.t = "undefined" THEN default ELSE arg

estimateCost(spec, inputs, modelIdArg, gpuTypeArg) ==
    LET modelId == OrDefault(modelIdArg, Str(<<"l", "l", "a", "m", "a", "3", "-", "8", "b", "-", "q", "4">>))
        gpuType == OrDefault(gpuTypeArg, Str(<<"c", "p", "u">>))
        found == findModel(modelId)
        gpu == findGpu(gpuType)
    IN IF ~found.found THEN ModelNotFound(modelId)
       ELSE IF ~Truthy(gpu) THEN GpuNotFound(gpuType)
       ELSE IF Nullish(inputs) \/ Nullish(spec) THEN TypeError
       ELSE
       LET model == found.model
           inputTokens == estimateTokensFromInputs(inputs)
           outputTokens == estimateOutputTokens(Get(spec, "id").v, inputTokens)
       IN IF outputTokens = Raises THEN TypeError
       ELSE
       LET llmCost ==
               Plus(Times(Ratio(inputTokens, 1000),
                          Ratio(model.price_per_1k_tokens_input_usd, 1)),
                    Times(Times(outputTokens, Ratio(1, 1000)),
                          Ratio(model.price_per_1k_tokens_output_usd, 1)))
           processingTime ==
               Times(Plus(Ratio(inputTokens, 1), outputTokens),
                     Ratio(1, model.tokens_per_second))
           coldStartTime == Ratio(5, 1)
           estimatedRuntime == Plus(processingTime, coldStartTime)
           containerCost ==
               Times(estimatedRuntime, ToNumber(Get(gpu, "price_per_second_usd")))
           totalCost == Plus(llmCost, containerCost)
       IN [kind |-> "return",
           estimate |-> [total |-> totalCost, container |-> containerCost,
                         llm |-> llmCost, runtime |-> estimatedRuntime]]

\* The calls the estimator is tried on.
LongText == [i \in 1..401 |-> "a"]
ScenarioText == [i \in 1..4000 |-> "a"]

CostFlowIds == {Str(<<"c", "l", "u", "s", "t", "e", "r", "-", "k", "e", "y", "w", "o", "r", "d", "s">>), Str(<<"m", "y", "-", "f", "l", "o", "w">>), Str(<<"c", "o", "n", "s", "t", "r", "u", "c", "t", "o", "r">>)}

CostInputs ==
    {EmptyObject,
     Obj([text |-> Str(<<"h", "e", "l", "l", "o">>)]),
     Obj([text |-> Str(LongText), options |-> Obj([k |-> Num(5)]),
          flag |-> Bool(TRUE), tags |-> Arr(<<Str(<<"a">>), Null>>)]),
     Obj([text |-> Str(ScenarioText)]),
     Null}

CostModelIds == {Undefined, Str(<<"l", "l", "a", "m", "a", "3", "-", "8", "b", "-", "q", "4">>), Str(<<"g", "p", "t", "-", "4", "o">>), Str(<<"g", "p", "t", "-", "5">>), Str(<<>>)}

CostGpuTypes ==
    {Undefined, Str(<<"c", "p", "u">>), Str(<<"a", "1", "0", "0">>), Str(<<"t", "p", "u">>), Str(<<"c", "o", "n", "s", "t", "r", "u", "c", "t", "o", "r">>),
     Str(<<"t", "o", "S", "t", "r", "i", "n", "g">>), Str(<<"_", "_", "p", "r", "o", "t", "o", "_", "_">>)}

EstimateCost ==
    /\ costResult = Pending
    /\ costResult' = estimateCost(costArgs.spec, costArgs.inputs,
                                  costArgs.modelId, costArgs.gpuType)
    /\ UNCHANGED costArgs

-----------------------------------------------------------------------------
(* cost/estimator.ts: getModelRecommendations and compareModels *)

\* const categoryRecommendations: the own properties of the object literal
categoryRecommendations ==
    [k \in {<<"d", "a", "t", "a", "-", "p", "r", "o", "c", "e", "s", "s", "i", "n", "g">>, <<"c", "o", "n", "t", "e", "n", "t", "-", "g", "e", "n", "e", "r", "a", "t", "i", "o", "n">>, <<"w", "e", "b", "-", "s", "c", "r", "a", "p", "i", "n", "g">>,
            <<"a", "n", "a", "l", "y", "s", "i", "s">>, <<"a", "u", "t", "o", "m", "a", "t", "i", "o", "n">>} |->
        Arr(CASE k = <<"d", "a", "t", "a", "-", "p", "r", "o", "c", "e", "s", "s", "i", "n", "g">> ->
                    <<Str(<<"k", "e", "y", "w", "o", "r", "d", "_", "c", "l", "u", "s", "t", "e", "r", "i", "n", "g">>), Str(<<"s", "i", "m", "p", "l", "e", "_", "a", "n", "a", "l", "y", "s", "i", "s">>),
                      Str(<<"d", "a", "t", "a", "_", "e", "x", "t", "r", "a", "c", "t", "i", "o", "n">>)>>
              [] k = <<"c", "o", "n", "t", "e", "n", "t", "-", "g", "e", "n", "e", "r", "a", "t", "i", "o", "n">> ->
                    <<Str(<<"c", "o", "n", "t", "e", "n", "t", "_", "g", "e", "n", "e", "r", "a", "t", "i", "o", "n">>), Str(<<"c", "r", "e", "a", "t", "i", "v", "e", "_", "t", "a", "s", "k", "s">>),
                      Str(<<"d", "r", "a", "f", "t", "_", "g", "e", "n", "e", "r", "a", "t", "i", "o", "n">>)>>
              [] k = <<"w", "e", "b", "-", "s", "c", "r", "a", "p", "i", "n", "g">> ->
                    <<Str(<<"d", "a", "t", "a", "_", "e", "x", "t", "r", "a", "c", "t", "i", "o", "n">>), Str(<<"t", "e", "x", "t", "_", "p", "r", "o", "c", "e", "s", "s", "i", "n", "g">>),
                      Str(<<"a", "n", "a", "l", "y", "s", "i", "s">>)>>
              [] k = <<"a", "n", "a", "l", "y", "s", "i", "s">> ->
                    <<Str(<<"r", "e", "a", "s", "o", "n", "i", "n", "g">>), Str(<<"c", "o", "m", "p", "l", "e", "x", "_", "a", "n", "a", "l", "y", "s", "i", "s">>),
                      Str(<<"m", "u", "l", "t", "i", "_", "s", "t", "e", "p", "_", "a", "g", "e", "n", "t", "s">>)>>
              [] OTHER ->
                    <<Str(<<"q", "u", "i", "c", "k", "_", "p", "r", "o", "c", "e", "s", "s", "i", "n", "g">>), Str(<<"b", "a", "t", "c", "h", "_", "p", "r", "o", "c", "e", "s", "s", "i", "n", "g">>),
                      Str(<<"s", "i", "m", "p", "l", "e", "_", "a", "n", "a", "l", "y", "s", "i", "s">>)>>)]

\* The length property of the functions Object.prototype hands down: the
\* number of their declared parameters; __proto__ is the prototype object,
\* which has no length.
functionLength(key) ==
    CASE key \in {<<"c", "o", "n", "s", "t", "r", "u", "c", "t", "o", "r">>, <<"h", "a", "s", "O", "w", "n", "P", "r", "o", "p", "e", "r", "t", "y">>, <<"i", "s", "P", "r", "o", "t", "o", "t", "y", "p", "e", "O", "f">>,
                  <<"p", "r", "o", "p", "e", "r", "t", "y", "I", "s", "E", "n", "u", "m", "e", "r", "a", "b", "l", "e">>, <<"_", "_", "l", "o", "o", "k", "u", "p", "G", "e", "t", "t", "e", "r", "_", "_">>,
                  <<"_", "_", "l", "o", "o", "k", "u", "p", "S", "e", "t", "t", "e", "r", "_", "_">>} -> Num(1)
      [] key \in {<<"_", "_", "d", "e", "f", "i", "n", "e", "G", "e", "t", "t", "e", "r", "_", "_">>, <<"_", "_", "d", "e", "f", "i", "n", "e", "S", "e", "t", "t", "e", "r", "_", "_">>} -> Num(2)
      [] key = <<"_", "_", "p", "r", "o", "t", "o", "_", "_">> -> Undefined
      [] OTHER -> Num(0)

\* (inputTokens / 1000) * price in + (outputTokens / 1000) * price out
estimateModelCost(model, inputTokens, outputTokens) ==
    Plus(Times(Ratio(inputTokens, 1000),
               Ratio(model.price_per_1k_tokens_input_usd, 1)),
         Times(Ratio(outputTokens, 1000),
               Ratio(model.price_per_1k_tokens_output_usd, 1)))

\* x - y < 0 for two numbers that are not NaN
Less(x, y) == x.num * y.den < y.num * x.den

\* seq.filter(keep), keep being a set of indices
filterAt(seq, keep) ==
    LET F[i \in 0..Len(seq)] ==
            IF i = 0 THEN <<>>
            ELSE IF i \in keep THEN Append(F[i - 1], seq[i]) ELSE F[i - 1]
    IN F[Len(seq)]

\* The comparator of filteredModels.sort: negative, zero or positive.
compareRecommended(a, b, tokens) ==
    IF Abs(a.quality_score - b.quality_score) > 5
    THEN b.quality_score - a.quality_score
    ELSE LET costA == estimateModelCost(a, tokens, tokens)
             costB == estimateModelCost(b, tokens, tokens)
         IN IF Less(costA, costB) THEN -1
            ELSE IF Less(costB, costA) THEN 1 ELSE 0

\* Array.prototype.sort is stable: the entries in the order of the
\* comparator, those it holds equal in the order they had. The comparator
\* is consistent on the entries of llmRegistry (no three of them have
\* scores that are pairwise within 0.05 for two pairs and apart for the
\* third), so this order is the one every sort algorithm produces.
sortRecommended(models, tokens) ==
    LET S[n \in 0..Len(models)] ==
            IF n = 0 THEN <<>>
            ELSE LET m == models[n]
                     p == Cardinality({k \in 1..(n - 1) :
                              compareRecommended(S[n - 1][k], m, tokens) <= 0})
                 IN SubSeq(S[n - 1], 1, p) \o <<m>>
                    \o SubSeq(S[n - 1], p + 1, n - 1)
    IN S[Len(models)]

getModelRecommendations(flowCategory, estimatedInputTokens, budgetUsd) ==
    LET models == filterAt(llmRegistry,
                           {i \in DOMAIN llmRegistry :
                               llmRegistry[i].status = Str(<<"a", "c", "t", "i", "v", "e">>)})
        looked == LookupProperty(categoryRecommendations, flowCategory)
        recommendedUseCases == IF Truthy(looked) THEN looked ELSE Arr(<<>>)
        length == IF recommendedUseCases.t = "function"
                  THEN functionLength(recommendedUseCases.v)
                  ELSE Get(recommendedUseCases, "length")
        filters == length.t = "number" /\ length.v > 0
        byUseCase ==
            IF filters
            THEN filterAt(models,
                          {i \in DOMAIN models :
                              \E u \in DOMAIN models[i].recommended_for :
                                  \E r \in DOMAIN recommendedUseCases.v :
                                      models[i].recommended_for[u]
                                          = recommendedUseCases.v[r]})
            ELSE models
        byBudget ==
            IF Truthy(budgetUsd)
            THEN filterAt(byUseCase,
                          {i \in DOMAIN byUseCase :
                              ~Less(ToNumber(budgetUsd),
                                    estimateModelCost(byUseCase[i],
                                                      estimatedInputTokens,
                                                      estimatedInputTokens))})
            ELSE byUseCase
    IN \* recommendedUseCases.includes is not a function
       IF filters /\ recommendedUseCases.t = "function" THEN TypeError
       ELSE [kind |-> "return",
             value |-> SubSeq(sortRecommended(byBudget, estimatedInputTokens),
                              1, Min(3, Len(byBudget)))]

\* The comparator of the sort of compareModels: b.qualityScore -
\* a.qualityScore. The entries it holds equal keep their order.
sortCompared(entries) ==
    LET S[n \in 0..Len(entries)] ==
            IF n = 0 THEN <<>>
            ELSE LET e == entries[n]
                     p == Cardinality({k \in 1..(n - 1) :
                              e.qualityScore - S[n - 1][k].qualityScore <= 0})
                 IN SubSeq(S[n - 1], 1, p) \o <<e>>
                    \o SubSeq(S[n - 1], p + 1, n - 1)
    IN S[Len(entries)]

compareModels(models, inputTokens, outputTokens) ==
    LET mapped ==
            [i \in DOMAIN models |->
                LET found == findModel(models[i])
                IN IF ~found.found THEN Null
                   ELSE [model |-> found.model,
                         cost |-> estimateModelCost(found.model, inputTokens,
                                                    outputTokens),
                         qualityScore |-> found.model.quality_score,
                         processingTime |->
                             Ratio(inputTokens + outputTokens,
                                   found.model.tokens_per_second)]]
    IN [kind |-> "return",
        value |-> sortCompared(filterAt(mapped,
                                        {i \in DOMAIN mapped :
                                            mapped[i] # Null}))]

MaxListed == 2

\* The categories of a flow spec, and a name Object.prototype hands down.
RecCategories ==
    {Str(<<"d", "a", "t", "a", "-", "p", "r", "o", "c", "e", "s", "s", "i", "n", "g">>), Str(<<"c", "o", "n", "t", "e", "n", "t", "-", "g", "e", "n", "e", "r", "a", "t", "i", "o", "n">>),
     Str(<<"w", "e", "b", "-", "s", "c", "r", "a", "p", "i", "n", "g">>), Str(<<"a", "n", "a", "l", "y", "s", "i", "s">>), Str(<<"a", "u", "t", "o", "m", "a", "t", "i", "o", "n">>),
     Str(<<"o", "t", "h", "e", "r">>), Str(<<"c", "o", "n", "s", "t", "r", "u", "c", "t", "o", "r">>)}

RecTokens == {100, 1000}

\* budgetUsd?: absent, or an amount in micro-dollars.
RecBudgets == {Undefined, Num(0), Num(300), Num(2000), Num(100000)}

ComparedIds ==
    {Str(<<"l", "l", "a", "m", "a", "3", "-", "8", "b", "-", "q", "4">>), Str(<<"g", "p", "t", "-", "4", "o">>), Str(<<"m", "i", "s", "t", "r", "a", "l", "-", "7", "b", "-", "q", "4">>),
     Str(<<"u", "n", "k", "n", "o", "w", "n", "-", "m", "o", "d", "e", "l">>)}

RecCalls ==
    {[fn |-> "getModelRecommendations", flowCategory |-> c,
      estimatedInputTokens |-> n, budgetUsd |-> b] :
        c \in RecCategories, n \in RecTokens, b \in RecBudgets}
    \cup {[fn |-> "compareModels", models |-> ms, inputTokens |-> n,
           outputTokens |-> o] :
            ms \in SeqsUpTo(ComparedIds, MaxListed), n \in RecTokens,
            o \in {50, 500}}

GetModelRecommendations ==
    /\ recArgs.fn = "getModelRecommendations"
    /\ recResult = Pending
    /\ recResult' = getModelRecommendations(recArgs.flowCategory.v,
                                            recArgs.estimatedInputTokens,
                                            recArgs.budgetUsd)
    /\ UNCHANGED recArgs

CompareModels ==
    /\ recArgs.fn = "compareModels"
    /\ recResult = Pending
    /\ recResult' = compareModels(recArgs.models, recArgs.inputTokens,
                                  recArgs.outputTokens)
    /\ UNCHANGED recArgs

-----------------------------------------------------------------------------
(* cost/estimator.ts: the token helpers called on their own *)

MaxTokenSteps == 4

\* inputTokens values the output estimate is asked for: 100, and steps of
\* 1225 from there.
TokenCounts == {100, 101, 399} \cup {100 + 1225 * k : k \in 1..MaxTokenSteps}

TokenInputs ==
    CostInputs
    \cup {Undefined, Str(<<"h", "i">>), Num(7),
          Arr(<<Str(<<"a", "b", "c">>), Num(12)>>),
          Obj([a |-> Null, b |-> Undefined, c |-> Bool(FALSE), d |-> Num(1234)]),
          Obj([text |-> Str([i \in 1..399 |-> "a"])]),
          Obj([text |-> Str([i \in 1..400 |-> "a"]), more |-> Str(<<"w", "x", "y", "z">>)])}

TokenFlowIds ==
    {Str(k) : k \in DOMAIN flowEstimates(100)}
    \cup {Str(<<"m", "y", "-", "f", "l", "o", "w">>), Str(<<"a", "b", "c">>), Str(<<"c", "o", "n", "s", "t", "r", "u", "c", "t", "o", "r">>), Str(<<"t", "o", "S", "t", "r", "i", "n", "g">>),
          Str(<<"v", "a", "l", "u", "e", "O", "f">>)}

TokenCalls ==
    [fn : {"estimateTokensFromInputs"}, inputs : TokenInputs]
    \cup [fn : {"estimateOutputTokens"}, flowId : TokenFlowIds,
          inputTokens : TokenCounts]

Value(v) == [kind |-> "return", value |-> v]

\* for (const [key, value] of Object.entries(inputs)): Object.entries
\* raises a TypeError for null and undefined.
EstimateTokensFromInputs ==
    /\ tokResult = Pending
    /\ tokArgs.fn = "estimateTokensFromInputs"
    /\ tokResult' = IF Nullish(tokArgs.inputs) THEN TypeError
                    ELSE Value(estimateTokensFromInputs(tokArgs.inputs))
    /\ UNCHANGED tokArgs

EstimateOutputTokens ==
    /\ tokResult = Pending
    /\ tokArgs.fn = "estimateOutputTokens"
    /\ LET out == estimateOutputTokens(tokArgs.flowId.v, tokArgs.inputTokens)
       IN tokResult' = IF out = Raises THEN TypeError ELSE Value(out)
    /\ UNCHANGED tokArgs

-----------------------------------------------------------------------------
(* generators/types.ts and generators/react.ts: the text they build *)

(* A generated text is a template literal: fixed text with holes. It is     *)
(* kept as the record of what fills its holes, in the order of the source;  *)
(* two texts of one generator are equal exactly when these records are.     *)

LowerChars == <<"a", "b", "c", "d", "e", "f", "g", "h", "i", "j", "k", "l", "m",
                "n", "o", "p", "q", "r", "s", "t", "u", "v", "w", "x", "y", "z">>
UpperChars == <<"A", "B", "C", "D", "E", "F", "G", "H", "I", "J", "K", "L", "M",
                "N", "O", "P", "Q", "R", "S", "T", "U", "V", "W", "X", "Y", "Z">>

\* c.toUpperCase() for one character.
toUpperCase(c) ==
    IF c \in Lower
    THEN UpperChars[CHOOSE i \in DOMAIN LowerChars : LowerChars[i] = c]
    ELSE c

RECURSIVE pascalFrom(_, _)
\* str.split('-').map(word => word.charAt(0).toUpperCase() + word.slice(1))
\* .join(''), from character i on: the hyphens go, and the first character
\* of every segment is put in upper case.
pascalFrom(str, i) ==
    IF i > Len(str) THEN <<>>
    ELSE IF str[i] = "-" THEN pascalFrom(str, i + 1)
    ELSE <<IF i = 1 \/ str[i - 1] = "-" THEN toUpperCase(str[i]) ELSE str[i]>>
         \o pascalFrom(str, i + 1)

toPascalCase(str) == pascalFrom(str, 1)

FlowWord == <<"F", "l", "o", "w">>

\* The places where /Flow/ matches in s.
flowMatches(s) ==
    {i \in 1..(Len(s) - 3) : SubSeq(s, i, i + 3) = FlowWord}

\* s.replace(/Flow/, ''): the first match is cut out.
removeFirstFlow(s) ==
    IF flowMatches(s) = {} THEN s
    ELSE LET i == CHOOSE i \in flowMatches(s) : \A j \in flowMatches(s) : i <= j
         IN SubSeq(s, 1, i - 1) \o SubSeq(s, i + 4, Len(s))

\* .replace(/Flow/, '') on a text whose holes are the pieces: the cut is
\* made in the first piece that holds a match.
replaceFlowIn(pieces) ==
    IF \A i \in DOMAIN pieces : flowMatches(pieces[i]) = {} THEN pieces
    ELSE LET i == CHOOSE i \in DOMAIN pieces :
                    /\ flowMatches(pieces[i]) # {}
                    /\ \A j \in 1..(i - 1) : flowMatches(pieces[j]) = {}
         IN [pieces EXCEPT ![i] = removeFirstFlow(pieces[i])]

\* getTypeScriptType of generators/types.ts
getTypeScriptType(type) ==
    CASE type \in {Str(<<"s", "t", "r", "i", "n", "g">>), Str(<<"t", "e", "x", "t">>), Str(<<"u", "r", "l">>)} -> "string"
      [] type = Str(<<"n", "u", "m", "b", "e", "r">>) -> "number"
      [] type = Str(<<"b", "o", "o", "l", "e", "a", "n">>) -> "boolean"
      [] type = Str(<<"f", "i", "l", "e">>) -> "File | string"
      [] type \in {Str(<<"j", "s", "o", "n">>), Str(<<"o", "b", "j", "e", "c", "t">>)} -> "Record<string, any>"
      [] type = Str(<<"a", "r", "r", "a", "y">>) -> "any[]"
      [] OTHER -> "any"

\* getTypeScriptType of generators/react.ts
getFormType(type) ==
    CASE type \in {Str(<<"s", "t", "r", "i", "n", "g">>), Str(<<"t", "e", "x", "t">>), Str(<<"u", "r", "l">>)} -> "string"
      [] type = Str(<<"n", "u", "m", "b", "e", "r">>) -> "number"
      [] type = Str(<<"b", "o", "o", "l", "e", "a", "n">>) -> "boolean"
      [] type = Str(<<"f", "i", "l", "e">>) -> "File | null"
      [] type \in {Str(<<"j", "s", "o", "n">>), Str(<<"o", "b", "j", "e", "c", "t">>)} -> "any"
      [] type = Str(<<"a", "r", "r", "a", "y">>) -> "any[]"
      [] OTHER -> "any"

\* ${x} in a template literal for a hole that may be absent: its string
\* form when it is truthy, nothing otherwise.
textOrEmpty(v) == IF Truthy(v) THEN ToJSString(v) ELSE <<>>

\* inputs[0]?.name || 'Flow'
firstNameOrFlow(params) ==
    IF Len(params) > 0 /\ ~Nullish(params[1]) /\ Truthy(Get(params[1], "name"))
    THEN ToJSString(Get(params[1], "name"))
    ELSE FlowWord

\* One interface of generateInputTypes, generateOutputTypes or
\* generateFormStateType: `export interface ${toPascalCase(first name or
\* 'Flow')}${suffix} { fields }`.replace(/Flow/, ''). The pieces are the
\* name, then comment and name of each field, as they stand in the text;
\* the form state takes its types from the getTypeScriptType of react.ts.
generateInterface(params, suffix, withComment, withOptional, forForm) ==
    LET pieces ==
            [i \in 1..(1 + 2 * Len(params)) |->
                IF i = 1 THEN toPascalCase(firstNameOrFlow(params)) \o suffix
                ELSE IF i % 2 = 0
                THEN IF withComment
                     THEN textOrEmpty(Get(params[i \div 2], "description"))
                     ELSE <<>>
                ELSE ToJSString(Get(params[i \div 2], "name"))]
        cut == replaceFlowIn(pieces)
    IN [name |-> cut[1],
        fields |->
            [i \in 1..Len(params) |->
                [comment |-> cut[2 * i],
                 name |-> cut[2 * i + 1],
                 optional |-> withOptional
                              /\ Get(params[i], "required") = Bool(FALSE),
                 type |-> IF forForm
                          THEN getFormType(Get(params[i], "type"))
                          ELSE getTypeScriptType(Get(params[i], "type"))]]]

InputSuffix == <<"I", "n", "p", "u", "t">>
OutputSuffix == <<"O", "u", "t", "p", "u", "t">>
FormStateSuffix == <<"F", "o", "r", "m", "S", "t", "a", "t", "e">>

generateInputTypes(inputs) ==
    generateInterface(inputs, InputSuffix, TRUE, TRUE, FALSE)

generateOutputTypes(outputs) ==
    generateInterface(outputs, OutputSuffix, TRUE, FALSE, FALSE)

generateFormStateType(inputs) ==
    generateInterface(inputs, FormStateSuffix, FALSE, TRUE, TRUE)

RECURSIVE escaped(_, _)
\* The characters of s from the i-th on as JSON.stringify writes them
\* between the quotes: a quote and a backslash get a backslash before them.
escaped(s, i) ==
    IF i > Len(s) THEN <<>>
    ELSE (IF s[i] \in {"\"", "\\"} THEN <<"\\", s[i]>> ELSE <<s[i]>>)
         \o escaped(s, i + 1)

RECURSIVE JSONText(_)
RECURSIVE JSONElements(_, _)
\* JSON.stringify(v) for a string, a number, a boolean, null, an array of
\* these and an object of at most one own property (a record keeps no
\* insertion order); undefined is not serialized and yields undefined,
\* which a template literal prints as the word.
JSONText(v) ==
    CASE v.t = "string" ->
            <<"\"">> \o escaped(v.v, 1) \o <<"\"">>
      [] v.t \in {"number", "boolean", "null", "undefined"} -> ToJSString(v)
      [] v.t = "array" -> <<"[">> \o JSONElements(v.v, 1) \o <<"]">>
      [] OTHER -> <<"{", "}">>

JSONElements(a, i) ==
    IF i > Len(a) THEN <<>>
    ELSE (IF a[i].t = "undefined" THEN ToJSString(Null) ELSE JSONText(a[i]))
         \o (IF i < Len(a) THEN <<",">> \o JSONElements(a, i + 1) ELSE <<>>)

\* ${v || d}
textOr(v, d) == IF Truthy(v) THEN ToJSString(v) ELSE d

\* spec.llm?.k
llmField(spec, k) ==
    IF Nullish(Get(spec, "llm")) THEN Undefined ELSE Get(Get(spec, "llm"), k)

\* Where a generator of interfaces throws a TypeError: params.length or
\* params.map on something that is no array, a property of an element that
\* is null or undefined, split on a first name that is no string.
interfaceThrows(params) ==
    \/ ~IsArray(params)
    \/ \E i \in 1..Len(params.v) : Nullish(params.v[i])
    \/ /\ Len(params.v) > 0
       /\ Truthy(Get(params.v[1], "name"))
       /\ Get(params.v[1], "name").t # "string"

\* Where generateTypeScriptTypes throws a TypeError.
typesThrows(spec) ==
    \/ Nullish(spec)
    \/ interfaceThrows(Get(spec, "inputs"))
    \/ interfaceThrows(Get(spec, "outputs"))
    \/ Get(spec, "id").t # "string"
    \/ Nullish(Get(spec, "runtime"))
    \/ Nullish(Get(spec, "meta"))

\* `${toPascalCase(spec.id)}${suffix}`
declared(spec, suffix) == toPascalCase(Get(spec, "id").v) \o suffix

generateSpecType(spec) ==
    LET runtime == Get(spec, "runtime")
        meta == Get(spec, "meta")
    IN [name |-> declared(spec, <<"S", "p", "e", "c">>),
        id |-> ToJSString(Get(spec, "id")),
        specName |-> ToJSString(Get(spec, "name")),
        version |-> ToJSString(Get(spec, "version")),
        description |-> textOr(Get(spec, "description"), <<>>),
        inputs |-> declared(spec, <<"I", "n", "p", "u", "t", "P", "a", "r", "a", "m", "e", "t", "e", "r">>),
        outputs |-> declared(spec, <<"O", "u", "t", "p", "u", "t", "P", "a", "r", "a", "m", "e", "t", "e", "r">>),
        image |-> ToJSString(Get(runtime, "image")),
        entrypoint |-> textOr(Get(runtime, "entrypoint"), <<"m", "a", "i", "n", ":", "r", "u", "n">>),
        gpu |-> textOr(Get(runtime, "gpu"), <<"c", "p", "u">>),
        timeout |-> textOr(Get(runtime, "timeout"), NatToString(300)),
        memory |-> textOr(Get(runtime, "memory"), NatToString(1024)),
        author |-> ToJSString(Get(meta, "author")),
        category |-> ToJSString(Get(meta, "category")),
        tags |-> JSONText(Get(meta, "tags")),
        license |-> textOr(Get(meta, "license"), <<"M", "I", "T">>),
        repository |-> textOr(Get(meta, "repository"), <<>>),
        estimated_cost |->
            IF Truthy(Get(meta, "estimated_cost"))
            THEN JSONText(Get(meta, "estimated_cost")) ELSE <<>>,
        llm |-> Truthy(Get(spec, "llm")),
        default_model |-> textOr(llmField(spec, "default_model"), <<>>),
        supported_models |->
            IF Truthy(llmField(spec, "supported_models"))
            THEN JSONText(llmField(spec, "supported_models")) ELSE <<>>,
        estimated_tokens |->
            IF Truthy(llmField(spec, "estimated_tokens"))
            THEN JSONText(llmField(spec, "estimated_tokens")) ELSE <<>>,
        inputParameter |-> declared(spec, <<"I", "n", "p", "u", "t", "P", "a", "r", "a", "m", "e", "t", "e", "r">>),
        outputParameter |-> declared(spec, <<"O", "u", "t", "p", "u", "t", "P", "a", "r", "a", "m", "e", "t", "e", "r">>)]

\* The text of generateTypeScriptTypes(spec). A declaration is its name and
\* the names of the types it refers to.
generateTypeScriptTypes(spec) ==
    IF typesThrows(spec) THEN TypeError
    ELSE LET meta == Get(spec, "meta")
             Input == declared(spec, InputSuffix)
             Output == declared(spec, OutputSuffix)
             ExecutionRequest == declared(spec, <<"E", "x", "e", "c", "u", "t", "i", "o", "n", "R", "e", "q", "u", "e", "s", "t">>)
             ExecutionResult == declared(spec, <<"E", "x", "e", "c", "u", "t", "i", "o", "n", "R", "e", "s", "u", "l", "t">>)
             CostEstimate == declared(spec, <<"C", "o", "s", "t", "E", "s", "t", "i", "m", "a", "t", "e">>)
             InputKey == declared(spec, <<"I", "n", "p", "u", "t", "K", "e", "y">>)
         IN [kind |-> "return",
             header |-> [name |-> ToJSString(Get(spec, "name")),
                         id |-> ToJSString(Get(spec, "id")),
                         version |-> ToJSString(Get(spec, "version"))],
             inputTypes |-> generateInputTypes(Get(spec, "inputs").v),
             outputTypes |-> generateOutputTypes(Get(spec, "outputs").v),
             specType |-> generateSpecType(spec),
             executionResult |-> [name |-> ExecutionResult, data |-> Output],
             executionRequest |-> [name |-> ExecutionRequest, inputs |-> Input],
             costEstimate |-> [name |-> CostEstimate],
             client |-> [name |-> declared(spec, <<"C", "l", "i", "e", "n", "t">>),
                         request |-> ExecutionRequest,
                         result |-> ExecutionResult,
                         inputs |-> Input,
                         estimate |-> CostEstimate],
             inputKey |-> [name |-> InputKey, keyof |-> Input],
             outputKey |-> [name |-> declared(spec, <<"O", "u", "t", "p", "u", "t", "K", "e", "y">>),
                            keyof |-> Output],
             validationResult |->
                 [name |-> declared(spec, <<"V", "a", "l", "i", "d", "a", "t", "i", "o", "n", "R", "e", "s", "u", "l", "t">>),
                  keys |-> InputKey],
             formState |-> [name |-> declared(spec, FormStateSuffix),
                            extends |-> Input],
             events |-> [name |-> declared(spec, <<"E", "v", "e", "n", "t", "s">>),
                         inputs |-> Input, result |-> ExecutionResult],
             meta |-> [name |-> declared(spec, <<"M", "e", "t", "a">>),
                       id |-> ToJSString(Get(spec, "id")),
                       specName |-> ToJSString(Get(spec, "name")),
                       version |-> ToJSString(Get(spec, "version")),
                       description |-> textOr(Get(spec, "description"),
                                              <<"u", "n", "d", "e", "f", "i", "n", "e", "d">>),
                       category |-> ToJSString(Get(meta, "category")),
                       tags |-> JSONText(Get(meta, "tags")),
                       author |-> ToJSString(Get(meta, "author")),
                       license |-> textOr(Get(meta, "license"), <<"M", "I", "T">>),
                       repository |-> textOr(Get(meta, "repository"), <<>>),
                       defaultModel |->
                           textOr(llmField(spec, "default_model"), <<>>),
                       supportedModels |->
                           IF Truthy(llmField(spec, "supported_models"))
                           THEN JSONText(llmField(spec, "supported_models"))
                           ELSE <<>>]]

\* input.ui?.k and input.validation?.k
uiField(input, k) ==
    IF Nullish(Get(input, "ui")) THEN Undefined ELSE Get(Get(input, "ui"), k)

validationField(input, k) ==
    IF Nullish(Get(input, "validation")) THEN Undefined
    ELSE Get(Get(input, "validation"), k)

getDefaultWidget(type) ==
    CASE type = Str(<<"t", "e", "x", "t">>) -> Str(<<"t", "e", "x", "t", "a", "r", "e", "a">>)
      [] type = Str(<<"b", "o", "o", "l", "e", "a", "n">>) -> Str(<<"c", "h", "e", "c", "k", "b", "o", "x">>)
      [] type = Str(<<"f", "i", "l", "e">>) -> Str(<<"f", "i", "l", "e">>)
      [] type \in {Str(<<"j", "s", "o", "n">>), Str(<<"o", "b", "j", "e", "c", "t">>)} -> Str(<<"j", "s", "o", "n", "-", "e", "d", "i", "t", "o", "r">>)
      [] OTHER -> Str(<<"i", "n", "p", "u", "t">>)

getDefaultValue(type) ==
    CASE type \in {Str(<<"s", "t", "r", "i", "n", "g">>), Str(<<"t", "e", "x", "t">>), Str(<<"u", "r", "l">>)} -> <<"'", "'">>
      [] type = Str(<<"n", "u", "m", "b", "e", "r">>) -> <<"0">>
      [] type = Str(<<"b", "o", "o", "l", "e", "a", "n">>) -> <<"f", "a", "l", "s", "e">>
      [] type = Str(<<"f", "i", "l", "e">>) -> <<"n", "u", "l", "l">>
      [] type \in {Str(<<"j", "s", "o", "n">>), Str(<<"o", "b", "j", "e", "c", "t">>)} -> <<"{", "}">>
      [] type = Str(<<"a", "r", "r", "a", "y">>) -> <<"[", "]">>
      [] OTHER -> <<"'", "'">>

RECURSIVE spaced(_, _)
\* name.replace(/([A-Z])/g, ' $1') from the i-th character on
spaced(name, i) ==
    IF i > Len(name) THEN <<>>
    ELSE (IF name[i] \in Upper THEN <<" ", name[i]>> ELSE <<name[i]>>)
         \o spaced(name, i + 1)

\* .replace(/^./, str => str.toUpperCase())
capitalized(s) ==
    IF Len(s) = 0 THEN s ELSE <<toUpperCase(s[1])>> \o SubSeq(s, 2, Len(s))

\* const label = input.name.replace(...).replace(...)
labelOf(name) == capitalized(spaced(name, 1))

\* An attribute written when its value is not undefined.
attribute(v) == IF v.t = "undefined" THEN Undefined ELSE Str(ToJSString(v))

NoAttributes ==
    [min |-> Undefined, max |-> Undefined, minLength |-> Undefined,
     maxLength |-> Undefined, pattern |-> Undefined]

\* The widget text of generateInputField: the case of the switch that was
\* taken and what fills the holes of its template; a hole the template of
\* the case does not have is undefined.
generateInputField(input, widget) ==
    LET case == IF widget \in {Str(<<"t", "e", "x", "t", "a", "r", "e", "a">>), Str(<<"s", "e", "l", "e", "c", "t">>),
                               Str(<<"c", "h", "e", "c", "k", "b", "o", "x">>), Str(<<"f", "i", "l", "e">>),
                               Str(<<"j", "s", "o", "n", "-", "e", "d", "i", "t", "o", "r">>)}
                THEN widget ELSE Str(<<"i", "n", "p", "u", "t">>)
        helpText == IF Truthy(uiField(input, "help"))
                    THEN uiField(input, "help") ELSE Get(input, "description")
        options == IF Truthy(validationField(input, "enum"))
                   THEN validationField(input, "enum").v ELSE <<>>
    IN [case |-> case.v,
        name |-> Get(input, "name").v,
        label |-> labelOf(Get(input, "name").v),
        required |-> Get(input, "required") # Bool(FALSE),
        help |-> textOr(helpText, <<>>),
        placeholder |->
            CASE case.v \in {<<"t", "e", "x", "t", "a", "r", "e", "a">>, <<"i", "n", "p", "u", "t">>} ->
                    Str(textOr(uiField(input, "placeholder"), <<>>))
              [] case.v = <<"j", "s", "o", "n", "-", "e", "d", "i", "t", "o", "r">> ->
                    Str(textOr(uiField(input, "placeholder"), <<"{", "}">>))
              [] OTHER -> Undefined,
        rows |->
            CASE case.v = <<"t", "e", "x", "t", "a", "r", "e", "a">> ->
                    Str(textOr(uiField(input, "rows"), <<"3">>))
              [] case.v = <<"j", "s", "o", "n", "-", "e", "d", "i", "t", "o", "r">> ->
                    Str(textOr(uiField(input, "rows"), <<"4">>))
              [] OTHER -> Undefined,
        options |->
            IF case.v = <<"s", "e", "l", "e", "c", "t">>
            THEN Arr([i \in 1..Len(options) |-> ToJSString(options[i])])
            ELSE Undefined,
        inputType |->
            IF case.v # <<"i", "n", "p", "u", "t">> THEN Undefined
            ELSE IF Get(input, "type") = Str(<<"n", "u", "m", "b", "e", "r">>) THEN Str(<<"n", "u", "m", "b", "e", "r">>)
            ELSE IF Get(input, "type") = Str(<<"u", "r", "l">>) THEN Str(<<"u", "r", "l">>)
            ELSE Str(<<"t", "e", "x", "t">>),
        parseFloat |->
            case.v = <<"i", "n", "p", "u", "t">> /\ Get(input, "type") = Str(<<"n", "u", "m", "b", "e", "r">>),
        attributes |->
            IF case.v # <<"i", "n", "p", "u", "t">> THEN NoAttributes
            ELSE [min |-> attribute(validationField(input, "min")),
                  max |-> attribute(validationField(input, "max")),
                  minLength |-> attribute(validationField(input, "minLength")),
                  maxLength |-> attribute(validationField(input, "maxLength")),
                  pattern |->
                      IF Truthy(validationField(input, "pattern"))
                      THEN Str(ToJSString(validationField(input, "pattern")))
                      ELSE Undefined]]

\* input.ui?.widget || getDefaultWidget(input.type)
widgetOf(input) ==
    IF Truthy(uiField(input, "widget")) THEN uiField(input, "widget")
    ELSE getDefaultWidget(Get(input, "type"))

generateInputFields(inputs) ==
    [i \in 1..Len(inputs) |-> generateInputField(inputs[i], widgetOf(inputs[i]))]

generateDefaultFormState(inputs) ==
    [i \in 1..Len(inputs) |->
        [name |-> ToJSString(Get(inputs[i], "name")),
         value |-> IF Get(inputs[i], "default").t # "undefined"
                   THEN JSONText(Get(inputs[i], "default"))
                   ELSE getDefaultValue(Get(inputs[i], "type"))]]

\* Where generateReactComponent throws a TypeError: split on an id that is
\* no string, what generateFormStateType throws on, replace on a name that
\* is no string, map on an enum of a select that is no array.
componentThrows(spec) ==
    \/ Nullish(spec)
    \/ Get(spec, "id").t # "string"
    \/ interfaceThrows(Get(spec, "inputs"))
    \/ \E i \in 1..Len(Get(spec, "inputs").v) :
          LET input == Get(spec, "inputs").v[i]
          IN \/ Get(input, "name").t # "string"
             \/ /\ widgetOf(input) = Str(<<"s", "e", "l", "e", "c", "t">>)
                /\ Truthy(validationField(input, "enum"))
                /\ ~IsArray(validationField(input, "enum"))

\* A component text that carries the time of its generation.
stampedComponent(spec, template) ==
    IF Nullish(spec) \/ Get(spec, "id").t # "string" THEN TypeError
    ELSE [kind |-> "return",
          component |-> toPascalCase(Get(spec, "id").v),
          generatedAt |-> genClock]

\* The text of generateReactComponent(spec, template); the template name
\* is not read.
generateReactComponent(spec, template) ==
    IF componentThrows(spec) THEN TypeError
    ELSE LET componentName == toPascalCase(Get(spec, "id").v)
         IN [kind |-> "return",
             formStateType |-> generateFormStateType(Get(spec, "inputs").v),
             props |-> [name |-> componentName \o <<"P", "r", "o", "p", "s">>,
                        data |-> componentName \o FormStateSuffix],
             component |-> componentName,
             formState |-> [type |-> componentName \o FormStateSuffix,
                            initial |->
                                generateDefaultFormState(Get(spec, "inputs").v)],
             flow_id |-> ToJSString(Get(spec, "id")),
             title |-> ToJSString(Get(spec, "name")),
             description |-> textOr(Get(spec, "description"), <<>>),
             inputFields |-> generateInputFields(Get(spec, "inputs").v)]

-----------------------------------------------------------------------------
(* cli.ts: the init command *)

\* c.toLowerCase() for one character.
toLowerCase(c) ==
    IF c \in Upper
    THEN LowerChars[CHOOSE i \in DOMAIN UpperChars : UpperChars[i] = c]
    ELSE c

\* name.toLowerCase().replace(/[^a-z0-9]/g, '-')
initFlowId(name) ==
    [i \in 1..Len(name) |->
        IF toLowerCase(name[i]) \in Lower \cup Digit
        THEN toLowerCase(name[i]) ELSE "-"]

\* const flowSpec: FlowSpec = {...}
initFlowSpec(name) ==
    Obj([id |-> Str(initFlowId(name)),
         name |-> Str(name),
         version |-> Str(<<"1", ".", "0", ".", "0">>),
         description |-> Str(name \o <<" ", "f", "l", "o", "w">>),
         inputs |->
             Arr(<<Obj([name |-> Str(<<"i", "n", "p", "u", "t">>), type |-> Str(<<"s", "t", "r", "i", "n", "g">>),
                        description |-> Str(<<"I", "n", "p", "u", "t", " ", "t", "e", "x", "t">>),
                        required |-> Bool(TRUE),
                        ui |-> Obj([widget |-> Str(<<"i", "n", "p", "u", "t">>),
                                    placeholder |->
                                        Str(<<"E", "n", "t", "e", "r", " ", "i", "n", "p", "u", "t", " ", "t", "e", "x", "t", ".", ".", ".">>)])])>>),
         outputs |->
             Arr(<<Obj([name |-> Str(<<"o", "u", "t", "p", "u", "t">>), type |-> Str(<<"s", "t", "r", "i", "n", "g">>),
                        description |-> Str(<<"O", "u", "t", "p", "u", "t", " ", "r", "e", "s", "u", "l", "t">>)])>>),
         runtime |-> Obj([image |-> Str(<<"c", "l", "o", "s", "e", "d", "a", "i", "/", "p", "y", "t", "h", "o", "n", ":", "3", ".", "1", "1">>),
                          entrypoint |-> Str(<<"m", "a", "i", "n", ":", "r", "u", "n">>),
                          gpu |-> Str(<<"c", "p", "u">>), timeout |-> Num(300),
                          memory |-> Num(1024)]),
         meta |-> Obj([author |-> Str(<<"C", "L", "O", "S", "E", "D", " ", "A", "I", " ", "U", "s", "e", "r">>),
                       category |-> Str(<<"a", "u", "t", "o", "m", "a", "t", "i", "o", "n">>),
                       tags |-> Arr(<<Str(<<"e", "x", "a", "m", "p", "l", "e">>)>>),
                       license |-> Str(<<"M", "I", "T">>)])])

\* The names init is given: short and long ones, with capitals, spaces and
\* other characters.
InitNames ==
    {<<"x">>, <<"a", "b">>, <<"A", "I">>, <<"a", "b", "c">>, <<"M", "y", " ", "F", "l", "o", "w">>, <<"c", "l", "u", "s", "t", "e", "r", "-", "k", "e", "y", "w", "o", "r", "d", "s">>,
     <<"T", "e", "x", "t", "_", "2", " ", "s", "u", "m", "m", "a", "r", "y", "!">>, [i \in 1..64 |-> "a"], [i \in 1..65 |-> "a"],
     [i \in 1..101 |-> "a"]}

\* await fs.ensureDir(flowDir)
InitEnsureDir ==
    /\ cliCmd = "init"
    /\ cliPc = "start"
    /\ \E ok \in BOOLEAN :
          IF ok THEN cliPc' = "dirReady" /\ UNCHANGED cliExit ELSE Exit(1)
    /\ UNCHANGED <<cliCmd, cliOpts, cliFile, cliFlowSpec, cliValidation,
                   cliCalls, cliWritten, initName>>

\* One fs.writeJson or fs.writeFile: the file is written, or the call
\* raises and the catch block exits with 1.
InitWrite(file, from, to) ==
    /\ cliCmd = "init"
    /\ cliPc = from
    /\ \E written \in BOOLEAN :
          IF written
          THEN /\ cliWritten' = cliWritten \cup {Artifact(file, cliFlowSpec')}
               /\ cliPc' = to
               /\ UNCHANGED cliExit
          ELSE /\ Exit(1)
               /\ UNCHANGED cliWritten
    /\ UNCHANGED <<cliCmd, cliOpts, cliFile, cliValidation, cliCalls, initName>>

\* const flowSpec = {...}; await fs.writeJson(.../flow.json, flowSpec)
InitWriteFlowJson ==
    /\ cliFlowSpec' = initFlowSpec(initName)
    /\ InitWrite("flow.json", "dirReady", "flowJson")

InitWriteMainPy ==
    /\ UNCHANGED cliFlowSpec
    /\ InitWrite("main.py", "flowJson", "mainPy")

InitWriteRequirements ==
    /\ UNCHANGED cliFlowSpec
    /\ InitWrite("requirements.txt", "mainPy", "requirements")

InitWriteReadme ==
    /\ UNCHANGED cliFlowSpec
    /\ InitWrite("README.md", "requirements", "readme")

\* The action returned: the process ends with code 0.
InitDone ==
    /\ cliCmd = "init"
    /\ cliPc = "readme"
    /\ Exit(0)
    /\ UNCHANGED <<cliCmd, cliOpts, cliFile, cliFlowSpec, cliValidation,
                   cliCalls, cliWritten, initName>>

-----------------------------------------------------------------------------
(* The generators called on a spec *)

MaxGenCalls == 2

FlowRateParam ==
    Obj([name |-> Str(<<"f", "l", "o", "w", "R", "a", "t", "e">>), type |-> Str(<<"n", "u", "m", "b", "e", "r">>),
         description |-> Str(<<"F", "l", "o", "w", " ", "r", "a", "t", "e">>), required |-> Bool(FALSE),
         validation |-> Obj([min |-> Num(1), max |-> Num(9)])])

ChoiceParam ==
    Obj([name |-> Str(<<"c", "h", "o", "i", "c", "e">>), type |-> Str(<<"s", "t", "r", "i", "n", "g">>),
         ui |-> Obj([widget |-> Str(<<"s", "e", "l", "e", "c", "t">>), help |-> Str(<<"P", "i", "c", "k", " ", "o", "n", "e">>)]),
         validation |-> Obj([enum |-> Arr(<<Str(<<"a">>), Str(<<"b">>)>>)])])

LimitParam ==
    Obj([name |-> Str(<<"l", "i", "m", "i", "t">>), type |-> Str(<<"n", "u", "m", "b", "e", "r">>),
         default |-> Num(5)])

\* A name that begins with a capital letter.
MaxItemsParam ==
    Obj([name |-> Str(<<"M", "a", "x", "I", "t", "e", "m", "s">>), type |-> Str(<<"n", "u", "m", "b", "e", "r">>)])

\* A multi-line text with length limits.
NotesParam ==
    Obj([name |-> Str(<<"n", "o", "t", "e", "s">>), type |-> Str(<<"t", "e", "x", "t">>),
         validation |-> Obj([minLength |-> Num(1), maxLength |-> Num(5)])])

GenParams ==
    {Obj([name |-> Str(<<"t", "e", "x", "t">>), type |-> Str(ty)]) : ty \in ParameterTypes}
    \cup {FlowRateParam, ChoiceParam, LimitParam, MaxItemsParam, NotesParam}

\* The inputs of a spec: none, one parameter, or two of them.
GenInputs ==
    {<<>>} \cup {<<p>> : p \in GenParams}
    \cup {<<p, q>> : p \in {GoodParam, FlowRateParam},
                     q \in {ChoiceParam, LimitParam}}

\* The specs the generators are called on: the ones validateFlowSpec
\* accepts, and ones with an id that is no string or without meta.
GenSpecs ==
    {Obj([id |-> i, name |-> Str(<<"C", "l", "u", "s", "t", "e", "r", " ", "K", "e", "y", "w", "o", "r", "d", "s">>),
          version |-> Str(<<"1", ".", "0", ".", "0">>), inputs |-> Arr(ins), outputs |-> Arr(outs),
          runtime |-> GoodRuntime, meta |-> m]) :
        i \in {Str(<<"c", "l", "u", "s", "t", "e", "r", "-", "k", "e", "y", "w", "o", "r", "d", "s">>), Str(<<"t", "e", "x", "t">>), Num(123)},
        ins \in GenInputs, outs \in {<<>>, <<GoodParam>>},
        m \in {GoodMeta, Null}}

\* template: string = 'default'
GenTemplates == {Undefined, Str(<<"d", "e", "f", "a", "u", "l", "t">>), Str(<<"m", "i", "n", "i", "m", "a", "l">>)}

\* const types = generateTypeScriptTypes(flowSpec)
GenerateTypeScriptTypes ==
    /\ Len(genOutputs) < MaxGenCalls
    /\ genOutputs' = Append(genOutputs,
                            [generator |-> "generateTypeScriptTypes",
                             template |-> Undefined,
                             at |-> genClock,
                             text |-> generateTypeScriptTypes(genSpec)])
    /\ UNCHANGED <<genSpec, genClock>>

\* const component = generateReactComponent(flowSpec, template)
GenerateReactComponent ==
    /\ Len(genOutputs) < MaxGenCalls
    /\ \E template \in GenTemplates :
          genOutputs' =
              Append(genOutputs,
                     [generator |-> "generateReactComponent",
                      template |-> OrDefault(template, Str(<<"d", "e", "f", "a", "u", "l", "t">>)),
                      at |-> genClock,
                      text |-> generateReactComponent(
                                  genSpec,
                                  OrDefault(template, Str(<<"d", "e", "f", "a", "u", "l", "t">>)))])
    /\ UNCHANGED <<genSpec, genClock>>

\* Time passes between two calls.
ClockTick ==
    /\ genClock < MaxGenCalls
    /\ genClock' = genClock + 1
    /\ UNCHANGED <<genSpec, genOutputs>>

-----------------------------------------------------------------------------
(* The components called one after another on the same objects *)

MaxFrameCalls == 2

\* data/llm-registry.json and data/gpu-pricing.json as imported.
PricingRegistry == [llmRegistry |-> llmRegistry, gpuPricing |-> gpuPricing]

\* The arrays of getModelRecommendations: llmRegistry, or one the call made.
NewArray == "a new array"

\* A filter that hands back the array it was called on.
filterInPlace(array) == array

\* array.filter(...) hands back a new array.
filter(array) == NewArray

\* The array filteredModels names when filteredModels.sort(...) is called.
filteredModels(flowCategory, budgetUsd) ==
    LET models == filter("llmRegistry")
        looked == LookupProperty(categoryRecommendations, flowCategory)
        recommendedUseCases == IF Truthy(looked) THEN looked ELSE Arr(<<>>)
        length == IF recommendedUseCases.t = "function"
                  THEN functionLength(recommendedUseCases.v)
                  ELSE Get(recommendedUseCases, "length")
        byUseCase == IF length.t = "number" /\ length.v > 0
                     THEN filter(models) ELSE models
    IN IF Truthy(budgetUsd) THEN filter(byUseCase) ELSE byUseCase

\* array.sort(...) sorts the array in place: the registry after the sort of
\* getModelRecommendations.
sortInPlace(registry, array, tokens) ==
    IF array = "llmRegistry"
    THEN [registry EXCEPT !.llmRegistry = sortRecommended(@, tokens)]
    ELSE registry

\* The specs and the calls the components are tried on.
FrameSpecs ==
    {Obj([id |-> i, name |-> Str(<<"C", "l", "u", "s", "t", "e", "r", " ", "K", "e", "y", "w", "o", "r", "d", "s">>),
          version |-> Str(<<"1", ".", "0", ".", "0">>), inputs |-> Arr(ins),
          outputs |-> Arr(<<GoodParam>>), runtime |-> GoodRuntime,
          meta |-> GoodMeta]) :
        i \in {Str(<<"c", "l", "u", "s", "t", "e", "r", "-", "k", "e", "y", "w", "o", "r", "d", "s">>), Str(<<"t", "e", "x", "t">>)},
        ins \in {<<>>, <<FlowRateParam, ChoiceParam>>}}
    \cup {Null}

FrameModelIds == {Undefined, Str(<<"g", "p", "t", "-", "5">>)}
FrameGpuTypes == {Undefined, Str(<<"t", "p", "u">>)}
FrameCategories == {<<"o", "t", "h", "e", "r">>, <<"d", "a", "t", "a", "-", "p", "r", "o", "c", "e", "s", "s", "i", "n", "g">>, <<"c", "o", "n", "s", "t", "r", "u", "c", "t", "o", "r">>}
FrameBudgets == {Undefined, Num(2000)}
FrameTokens == {1000}
FrameCompared ==
    {<<Str(<<"l", "l", "a", "m", "a", "3", "-", "8", "b", "-", "q", "4">>), Str(<<"g", "p", "t", "-", "4", "o">>)>>, <<Str(<<"u", "n", "k", "n", "o", "w", "n", "-", "m", "o", "d", "e", "l">>)>>}

\* The log with one more call: the function, its arguments other than the
\* spec and the input values, and how it ended.
called(fn, args, result) ==
    Append(frameCalls,
           [fn |-> fn, args |-> args, outcome |-> result.kind,
            error |-> IF "error" \in DOMAIN result THEN result.error ELSE ""])

CallValidateFlowSpec ==
    /\ Len(frameCalls) < MaxFrameCalls
    /\ frameCalls' = called("validateFlowSpec", <<>>, validateFlowSpec(heapSpec))
    /\ UNCHANGED <<heapRegistry, heapSpec, heapInputs>>

CallGenerateTypeScriptTypes ==
    /\ Len(frameCalls) < MaxFrameCalls
    /\ frameCalls' = called("generateTypeScriptTypes", <<>>,
                            generateTypeScriptTypes(heapSpec))
    /\ UNCHANGED <<heapRegistry, heapSpec, heapInputs>>

CallGenerateReactComponent ==
    /\ Len(frameCalls) < MaxFrameCalls
    /\ frameCalls' = called("generateReactComponent", <<>>,
                            generateReactComponent(heapSpec, Str(<<"d", "e", "f", "a", "u", "l", "t">>)))
    /\ UNCHANGED <<heapRegistry, heapSpec, heapInputs>>

CallEstimateCost ==
    /\ Len(frameCalls) < MaxFrameCalls
    /\ \E modelId \in FrameModelIds, gpuType \in FrameGpuTypes :
          frameCalls' = called("estimateCost", <<modelId, gpuType>>,
                               estimateCost(heapSpec, heapInputs, modelId, gpuType))
    /\ UNCHANGED <<heapRegistry, heapSpec, heapInputs>>

CallGetModelRecommendations ==
    /\ Len(frameCalls) < MaxFrameCalls
    /\ \E flowCategory \in FrameCategories, tokens \in FrameTokens,
          budgetUsd \in FrameBudgets :
          LET result == getModelRecommendations(flowCategory, tokens, budgetUsd)
          IN /\ frameCalls' = called("getModelRecommendations",
                                     <<flowCategory, tokens, budgetUsd>>, result)
             /\ heapRegistry' =
                    IF result.kind = "return"
                    THEN sortInPlace(heapRegistry,
                                     filteredModels(flowCategory, budgetUsd),
                                     tokens)
                    ELSE heapRegistry
    /\ UNCHANGED <<heapSpec, heapInputs>>

CallCompareModels ==
    /\ Len(frameCalls) < MaxFrameCalls
    /\ \E models \in FrameCompared, tokens \in FrameTokens :
          frameCalls' = called("compareModels", <<models, tokens>>,
                               compareModels(models, tokens, tokens))
    /\ UNCHANGED <<heapRegistry, heapSpec, heapInputs>>

-----------------------------------------------------------------------------
(* Specifications *)

\* The execution half of the component: submit events and run requests.
FormRunNext ==
    \/ \E value \in FormValues : HandleInputChange(value) /\ UNCHANGED <<valVars, cliVars, costVars, tokVars, recVars, genVars, initVars, frameVars>>
    \/ Render /\ UNCHANGED <<valVars, cliVars, costVars, tokVars, recVars, genVars, initVars, frameVars>>
    \/ Submit /\ UNCHANGED <<valVars, cliVars, costVars, tokVars, recVars, genVars, initVars, frameVars>>
    \/ \E i \in DOMAIN runs, outcome \in RunOutcomes :
          RunResponds(i, outcome) /\ UNCHANGED <<valVars, cliVars, costVars, tokVars, recVars, genVars, initVars, frameVars>>
    \/ Unmount /\ UNCHANGED <<valVars, cliVars, costVars, tokVars, recVars, genVars, initVars, frameVars>>

\* The estimate half: the debounced effect and the estimate requests.
FormEstimateNext ==
    \/ \E value \in FormValues : HandleInputChange(value) /\ UNCHANGED <<valVars, cliVars, costVars, tokVars, recVars, genVars, initVars, frameVars>>
    \/ \E model \in ModelOptions : SetSelectedModel(model) /\ UNCHANGED <<valVars, cliVars, costVars, tokVars, recVars, genVars, initVars, frameVars>>
    \/ Render /\ UNCHANGED <<valVars, cliVars, costVars, tokVars, recVars, genVars, initVars, frameVars>>
    \/ Tick /\ UNCHANGED <<valVars, cliVars, costVars, tokVars, recVars, genVars, initVars, frameVars>>
    \/ TimerFires /\ UNCHANGED <<valVars, cliVars, costVars, tokVars, recVars, genVars, initVars, frameVars>>
    \/ \E i \in DOMAIN estimates, ok \in BOOLEAN :
          EstimateResponds(i, ok) /\ UNCHANGED <<valVars, cliVars, costVars, tokVars, recVars, genVars, initVars, frameVars>>
    \/ Unmount /\ UNCHANGED <<valVars, cliVars, costVars, tokVars, recVars, genVars, initVars, frameVars>>

FormInit ==
    /\ vSpec = Undefined
    /\ vResult = Pending
    /\ cliCmd = "none"
    /\ cliOpts = [typesOnly |-> FALSE, componentOnly |-> FALSE]
    /\ cliFile = Missing
    /\ cliPc = "idle"
    /\ cliFlowSpec = Undefined
    /\ cliValidation = Pending
    /\ cliCalls = <<>>
    /\ cliWritten = {}
    /\ cliExit = Undefined
    /\ mounted = TRUE
    /\ disabled \in BOOLEAN
    /\ formState = "draft"
    /\ selectedModel = "llama3-8b-q4"
    /\ execution = Idle
    /\ costEstimate = NoRequest
    /\ view = [formState |-> "draft", selectedModel |-> "llama3-8b-q4",
               execution |-> Idle, disabled |-> disabled]
    /\ depsDirty = FALSE
    /\ timers = setTimeout(NoTimers, 1, scheduleEstimate("draft", "llama3-8b-q4"))
    /\ debounceTimer = 1
    /\ estimates = <<>>
    /\ runs = <<>>
    /\ lastEstimate = NoRequest
    /\ lastResponse = "none"
    /\ changesLeft = MaxChanges
    /\ submitsLeft = MaxSubmits
    /\ formStable = 0
    /\ depsStable = 0
    /\ formRequested = FALSE
    /\ depsRequested = FALSE
    /\ hasCompleted = FALSE
    /\ costArgs = Undefined
    /\ costResult = Pending
    /\ tokArgs = Undefined
    /\ tokResult = Pending
    /\ recArgs = Undefined
    /\ recResult = Pending
    /\ genSpec = Undefined
    /\ genClock = 0
    /\ genOutputs = <<>>
    /\ initName = Undefined
    /\ heapRegistry = PricingRegistry
    /\ heapSpec = Undefined
    /\ heapInputs = Undefined
    /\ frameCalls = <<>>

SpecFormRun == FormInit /\ [][FormRunNext]_vars

SpecFormEstimate == FormInit /\ [][FormEstimateNext]_vars

\* fetch resolves or rejects: a run request in flight ends.
RunSettles ==
    /\ \E i \in DOMAIN runs, outcome \in RunOutcomes : RunResponds(i, outcome)
    /\ UNCHANGED <<valVars, cliVars, costVars, tokVars, recVars, genVars, initVars, frameVars>>

\* The execution half with every run request ending.
SpecFormRunSettling ==
    FormInit /\ [][FormRunNext]_vars /\ WF_vars(RunSettles)


\* A caller applies validateFlowSpec to a value; nothing else runs.
ValNext == ValidateFlowSpec /\ UNCHANGED <<cliVars, formVars, costVars, tokVars, recVars, genVars, initVars, frameVars>>

ValInit ==
    /\ vSpec \in FlowSpecSamples(MaxParams)
    /\ vResult = Pending
    /\ cliCmd = "none"
    /\ cliOpts = [typesOnly |-> FALSE, componentOnly |-> FALSE]
    /\ cliFile = Missing
    /\ cliPc = "idle"
    /\ cliFlowSpec = Undefined
    /\ cliValidation = Pending
    /\ cliCalls = <<>>
    /\ cliWritten = {}
    /\ cliExit = Undefined
    /\ mounted = FALSE
    /\ disabled = FALSE
    /\ formState = "draft"
    /\ selectedModel = "llama3-8b-q4"
    /\ execution = Idle
    /\ costEstimate = NoRequest
    /\ view = [formState |-> "draft", selectedModel |-> "llama3-8b-q4",
               execution |-> Idle, disabled |-> FALSE]
    /\ depsDirty = FALSE
    /\ timers = NoTimers
    /\ debounceTimer = 0
    /\ estimates = <<>>
    /\ runs = <<>>
    /\ lastEstimate = NoRequest
    /\ lastResponse = "none"
    /\ changesLeft = 0
    /\ submitsLeft = 0
    /\ formStable = 0
    /\ depsStable = 0
    /\ formRequested = FALSE
    /\ depsRequested = FALSE
    /\ hasCompleted = FALSE
    /\ costArgs = Undefined
    /\ costResult = Pending
    /\ tokArgs = Undefined
    /\ tokResult = Pending
    /\ recArgs = Undefined
    /\ recResult = Pending
    /\ genSpec = Undefined
    /\ genClock = 0
    /\ genOutputs = <<>>
    /\ initName = Undefined
    /\ heapRegistry = PricingRegistry
    /\ heapSpec = Undefined
    /\ heapInputs = Undefined
    /\ frameCalls = <<>>

SpecValidator == ValInit /\ [][ValNext]_vars

\* One run of the generate or of the validate command.
CliNext ==
    \/ CliLoad /\ UNCHANGED <<valVars, formVars, costVars, tokVars, recVars, genVars, initVars, frameVars>>
    \/ GenerateValidate /\ UNCHANGED <<valVars, formVars, costVars, tokVars, recVars, genVars, initVars, frameVars>>
    \/ GenerateEnsureDir /\ UNCHANGED <<valVars, formVars, costVars, tokVars, recVars, genVars, initVars, frameVars>>
    \/ GenerateTypes /\ UNCHANGED <<valVars, formVars, costVars, tokVars, recVars, genVars, initVars, frameVars>>
    \/ GenerateComponent /\ UNCHANGED <<valVars, formVars, costVars, tokVars, recVars, genVars, initVars, frameVars>>
    \/ GenerateDone /\ UNCHANGED <<valVars, formVars, costVars, tokVars, recVars, genVars, initVars, frameVars>>
    \/ ValidateCommand /\ UNCHANGED <<valVars, formVars, costVars, tokVars, recVars, genVars, initVars, frameVars>>

CliInit ==
    /\ vSpec = Undefined
    /\ vResult = Pending
    /\ cliCmd \in {"generate", "validate"}
    /\ cliOpts \in [typesOnly : BOOLEAN, componentOnly : BOOLEAN]
    /\ cliFile \in CliFiles
    /\ cliPc = "start"
    /\ cliFlowSpec = Undefined
    /\ cliValidation = Pending
    /\ cliCalls = <<>>
    /\ cliWritten = {}
    /\ cliExit = Undefined
    /\ mounted = FALSE
    /\ disabled = FALSE
    /\ formState = "draft"
    /\ selectedModel = "llama3-8b-q4"
    /\ execution = Idle
    /\ costEstimate = NoRequest
    /\ view = [formState |-> "draft", selectedModel |-> "llama3-8b-q4",
               execution |-> Idle, disabled |-> FALSE]
    /\ depsDirty = FALSE
    /\ timers = NoTimers
    /\ debounceTimer = 0
    /\ estimates = <<>>
    /\ runs = <<>>
    /\ lastEstimate = NoRequest
    /\ lastResponse = "none"
    /\ changesLeft = 0
    /\ submitsLeft = 0
    /\ formStable = 0
    /\ depsStable = 0
    /\ formRequested = FALSE
    /\ depsRequested = FALSE
    /\ hasCompleted = FALSE
    /\ costArgs = Undefined
    /\ costResult = Pending
    /\ tokArgs = Undefined
    /\ tokResult = Pending
    /\ recArgs = Undefined
    /\ recResult = Pending
    /\ genSpec = Undefined
    /\ genClock = 0
    /\ genOutputs = <<>>
    /\ initName = Undefined
    /\ heapRegistry = PricingRegistry
    /\ heapSpec = Undefined
    /\ heapInputs = Undefined
    /\ frameCalls = <<>>

SpecCli == CliInit /\ [][CliNext]_vars

\* One call of estimateCost.
CostNext == EstimateCost /\ UNCHANGED <<valVars, cliVars, formVars, tokVars, recVars, genVars, initVars, frameVars>>

CostInit ==
    /\ vSpec = Undefined
    /\ vResult = Pending
    /\ cliCmd = "none"
    /\ cliOpts = [typesOnly |-> FALSE, componentOnly |-> FALSE]
    /\ cliFile = Missing
    /\ cliPc = "idle"
    /\ cliFlowSpec = Undefined
    /\ cliValidation = Pending
    /\ cliCalls = <<>>
    /\ cliWritten = {}
    /\ cliExit = Undefined
    /\ mounted = FALSE
    /\ disabled = FALSE
    /\ formState = "draft"
    /\ selectedModel = "llama3-8b-q4"
    /\ execution = Idle
    /\ costEstimate = NoRequest
    /\ view = [formState |-> "draft", selectedModel |-> "llama3-8b-q4",
               execution |-> Idle, disabled |-> FALSE]
    /\ depsDirty = FALSE
    /\ timers = NoTimers
    /\ debounceTimer = 0
    /\ estimates = <<>>
    /\ runs = <<>>
    /\ lastEstimate = NoRequest
    /\ lastResponse = "none"
    /\ changesLeft = 0
    /\ submitsLeft = 0
    /\ formStable = 0
    /\ depsStable = 0
    /\ formRequested = FALSE
    /\ depsRequested = FALSE
    /\ hasCompleted = FALSE
    /\ costArgs \in [spec : {Obj([id |-> i]) : i \in CostFlowIds},
                     inputs : CostInputs,
                     modelId : CostModelIds,
                     gpuType : CostGpuTypes]
    /\ costResult = Pending
    /\ tokArgs = Undefined
    /\ tokResult = Pending
    /\ recArgs = Undefined
    /\ recResult = Pending
    /\ genSpec = Undefined
    /\ genClock = 0
    /\ genOutputs = <<>>
    /\ initName = Undefined
    /\ heapRegistry = PricingRegistry
    /\ heapSpec = Undefined
    /\ heapInputs = Undefined
    /\ frameCalls = <<>>

SpecCost == CostInit /\ [][CostNext]_vars

\* One call of estimateTokensFromInputs or of estimateOutputTokens.
TokNext ==
    \/ EstimateTokensFromInputs /\ UNCHANGED <<valVars, cliVars, formVars, costVars, recVars, genVars, initVars, frameVars>>
    \/ EstimateOutputTokens /\ UNCHANGED <<valVars, cliVars, formVars, costVars, recVars, genVars, initVars, frameVars>>

TokInit ==
    /\ vSpec = Undefined
    /\ vResult = Pending
    /\ cliCmd = "none"
    /\ cliOpts = [typesOnly |-> FALSE, componentOnly |-> FALSE]
    /\ cliFile = Missing
    /\ cliPc = "idle"
    /\ cliFlowSpec = Undefined
    /\ cliValidation = Pending
    /\ cliCalls = <<>>
    /\ cliWritten = {}
    /\ cliExit = Undefined
    /\ mounted = FALSE
    /\ disabled = FALSE
    /\ formState = "draft"
    /\ selectedModel = "llama3-8b-q4"
    /\ execution = Idle
    /\ costEstimate = NoRequest
    /\ view = [formState |-> "draft", selectedModel |-> "llama3-8b-q4",
               execution |-> Idle, disabled |-> FALSE]
    /\ depsDirty = FALSE
    /\ timers = NoTimers
    /\ debounceTimer = 0
    /\ estimates = <<>>
    /\ runs = <<>>
    /\ lastEstimate = NoRequest
    /\ lastResponse = "none"
    /\ changesLeft = 0
    /\ submitsLeft = 0
    /\ formStable = 0
    /\ depsStable = 0
    /\ formRequested = FALSE
    /\ depsRequested = FALSE
    /\ hasCompleted = FALSE
    /\ costArgs = Undefined
    /\ costResult = Pending
    /\ tokArgs \in TokenCalls
    /\ tokResult = Pending
    /\ recArgs = Undefined
    /\ recResult = Pending
    /\ genSpec = Undefined
    /\ genClock = 0
    /\ genOutputs = <<>>
    /\ initName = Undefined
    /\ heapRegistry = PricingRegistry
    /\ heapSpec = Undefined
    /\ heapInputs = Undefined
    /\ frameCalls = <<>>

SpecTokens == TokInit /\ [][TokNext]_vars

\* The generators are called on one spec, at any time of day.
GenNext ==
    \/ GenerateTypeScriptTypes /\ UNCHANGED <<valVars, cliVars, formVars, costVars, tokVars, recVars, initVars, frameVars>>
    \/ GenerateReactComponent /\ UNCHANGED <<valVars, cliVars, formVars, costVars, tokVars, recVars, initVars, frameVars>>
    \/ ClockTick /\ UNCHANGED <<valVars, cliVars, formVars, costVars, tokVars, recVars, initVars, frameVars>>

GenInit ==
    /\ vSpec = Undefined
    /\ vResult = Pending
    /\ cliCmd = "none"
    /\ cliOpts = [typesOnly |-> FALSE, componentOnly |-> FALSE]
    /\ cliFile = Missing
    /\ cliPc = "idle"
    /\ cliFlowSpec = Undefined
    /\ cliValidation = Pending
    /\ cliCalls = <<>>
    /\ cliWritten = {}
    /\ cliExit = Undefined
    /\ mounted = FALSE
    /\ disabled = FALSE
    /\ formState = "draft"
    /\ selectedModel = "llama3-8b-q4"
    /\ execution = Idle
    /\ costEstimate = NoRequest
    /\ view = [formState |-> "draft", selectedModel |-> "llama3-8b-q4",
               execution |-> Idle, disabled |-> FALSE]
    /\ depsDirty = FALSE
    /\ timers = NoTimers
    /\ debounceTimer = 0
    /\ estimates = <<>>
    /\ runs = <<>>
    /\ lastEstimate = NoRequest
    /\ lastResponse = "none"
    /\ changesLeft = 0
    /\ submitsLeft = 0
    /\ formStable = 0
    /\ depsStable = 0
    /\ formRequested = FALSE
    /\ depsRequested = FALSE
    /\ hasCompleted = FALSE
    /\ costArgs = Undefined
    /\ costResult = Pending
    /\ tokArgs = Undefined
    /\ tokResult = Pending
    /\ recArgs = Undefined
    /\ recResult = Pending
    /\ genSpec \in GenSpecs
    /\ genClock = 0
    /\ genOutputs = <<>>
    /\ initName = Undefined
    /\ heapRegistry = PricingRegistry
    /\ heapSpec = Undefined
    /\ heapInputs = Undefined
    /\ frameCalls = <<>>

SpecGenerators == GenInit /\ [][GenNext]_vars

\* One call of getModelRecommendations or of compareModels.
RecNext ==
    \/ GetModelRecommendations /\ UNCHANGED <<valVars, cliVars, formVars, costVars, tokVars, genVars, initVars, frameVars>>
    \/ CompareModels /\ UNCHANGED <<valVars, cliVars, formVars, costVars, tokVars, genVars, initVars, frameVars>>

RecInit ==
    /\ vSpec = Undefined
    /\ vResult = Pending
    /\ cliCmd = "none"
    /\ cliOpts = [typesOnly |-> FALSE, componentOnly |-> FALSE]
    /\ cliFile = Missing
    /\ cliPc = "idle"
    /\ cliFlowSpec = Undefined
    /\ cliValidation = Pending
    /\ cliCalls = <<>>
    /\ cliWritten = {}
    /\ cliExit = Undefined
    /\ mounted = FALSE
    /\ disabled = FALSE
    /\ formState = "draft"
    /\ selectedModel = "llama3-8b-q4"
    /\ execution = Idle
    /\ costEstimate = NoRequest
    /\ view = [formState |-> "draft", selectedModel |-> "llama3-8b-q4",
               execution |-> Idle, disabled |-> FALSE]
    /\ depsDirty = FALSE
    /\ timers = NoTimers
    /\ debounceTimer = 0
    /\ estimates = <<>>
    /\ runs = <<>>
    /\ lastEstimate = NoRequest
    /\ lastResponse = "none"
    /\ changesLeft = 0
    /\ submitsLeft = 0
    /\ formStable = 0
    /\ depsStable = 0
    /\ formRequested = FALSE
    /\ depsRequested = FALSE
    /\ hasCompleted = FALSE
    /\ costArgs = Undefined
    /\ costResult = Pending
    /\ tokArgs = Undefined
    /\ tokResult = Pending
    /\ recArgs \in RecCalls
    /\ recResult = Pending
    /\ genSpec = Undefined
    /\ genClock = 0
    /\ genOutputs = <<>>
    /\ initName = Undefined
    /\ heapRegistry = PricingRegistry
    /\ heapSpec = Undefined
    /\ heapInputs = Undefined
    /\ frameCalls = <<>>

SpecModels == RecInit /\ [][RecNext]_vars

\* The init command on one name.
InitNext ==
    \/ InitEnsureDir /\ UNCHANGED <<valVars, formVars, costVars, tokVars, recVars, genVars, frameVars>>
    \/ InitWriteFlowJson /\ UNCHANGED <<valVars, formVars, costVars, tokVars, recVars, genVars, frameVars>>
    \/ InitWriteMainPy /\ UNCHANGED <<valVars, formVars, costVars, tokVars, recVars, genVars, frameVars>>
    \/ InitWriteRequirements /\ UNCHANGED <<valVars, formVars, costVars, tokVars, recVars, genVars, frameVars>>
    \/ InitWriteReadme /\ UNCHANGED <<valVars, formVars, costVars, tokVars, recVars, genVars, frameVars>>
    \/ InitDone /\ UNCHANGED <<valVars, formVars, costVars, tokVars, recVars, genVars, frameVars>>

InitInit ==
    /\ vSpec = Undefined
    /\ vResult = Pending
    /\ cliCmd = "init"
    /\ cliOpts = [typesOnly |-> FALSE, componentOnly |-> FALSE]
    /\ cliFile = Missing
    /\ cliPc = "start"
    /\ cliFlowSpec = Undefined
    /\ cliValidation = Pending
    /\ cliCalls = <<>>
    /\ cliWritten = {}
    /\ cliExit = Undefined
    /\ mounted = FALSE
    /\ disabled = FALSE
    /\ formState = "draft"
    /\ selectedModel = "llama3-8b-q4"
    /\ execution = Idle
    /\ costEstimate = NoRequest
    /\ view = [formState |-> "draft", selectedModel |-> "llama3-8b-q4",
               execution |-> Idle, disabled |-> FALSE]
    /\ depsDirty = FALSE
    /\ timers = NoTimers
    /\ debounceTimer = 0
    /\ estimates = <<>>
    /\ runs = <<>>
    /\ lastEstimate = NoRequest
    /\ lastResponse = "none"
    /\ changesLeft = 0
    /\ submitsLeft = 0
    /\ formStable = 0
    /\ depsStable = 0
    /\ formRequested = FALSE
    /\ depsRequested = FALSE
    /\ hasCompleted = FALSE
    /\ costArgs = Undefined
    /\ costResult = Pending
    /\ tokArgs = Undefined
    /\ tokResult = Pending
    /\ recArgs = Undefined
    /\ recResult = Pending
    /\ genSpec = Undefined
    /\ genClock = 0
    /\ genOutputs = <<>>
    /\ initName \in InitNames
    /\ heapRegistry = PricingRegistry
    /\ heapSpec = Undefined
    /\ heapInputs = Undefined
    /\ frameCalls = <<>>

SpecInit == InitInit /\ [][InitNext]_vars

\* The components called on one spec and one object of input values.
FrameNext ==
    \/ CallValidateFlowSpec /\ UNCHANGED <<valVars, cliVars, formVars, costVars, tokVars, recVars, genVars, initVars>>
    \/ CallGenerateTypeScriptTypes /\ UNCHANGED <<valVars, cliVars, formVars, costVars, tokVars, recVars, genVars, initVars>>
    \/ CallGenerateReactComponent /\ UNCHANGED <<valVars, cliVars, formVars, costVars, tokVars, recVars, genVars, initVars>>
    \/ CallEstimateCost /\ UNCHANGED <<valVars, cliVars, formVars, costVars, tokVars, recVars, genVars, initVars>>
    \/ CallGetModelRecommendations /\ UNCHANGED <<valVars, cliVars, formVars, costVars, tokVars, recVars, genVars, initVars>>
    \/ CallCompareModels /\ UNCHANGED <<valVars, cliVars, formVars, costVars, tokVars, recVars, genVars, initVars>>

FrameInit ==
    /\ vSpec = Undefined
    /\ vResult = Pending
    /\ cliCmd = "none"
    /\ cliOpts = [typesOnly |-> FALSE, componentOnly |-> FALSE]
    /\ cliFile = Missing
    /\ cliPc = "idle"
    /\ cliFlowSpec = Undefined
    /\ cliValidation = Pending
    /\ cliCalls = <<>>
    /\ cliWritten = {}
    /\ cliExit = Undefined
    /\ mounted = FALSE
    /\ disabled = FALSE
    /\ formState = "draft"
    /\ selectedModel = "llama3-8b-q4"
    /\ execution = Idle
    /\ costEstimate = NoRequest
    /\ view = [formState |-> "draft", selectedModel |-> "llama3-8b-q4",
               execution |-> Idle, disabled |-> FALSE]
    /\ depsDirty = FALSE
    /\ timers = NoTimers
    /\ debounceTimer = 0
    /\ estimates = <<>>
    /\ runs = <<>>
    /\ lastEstimate = NoRequest
    /\ lastResponse = "none"
    /\ changesLeft = 0
    /\ submitsLeft = 0
    /\ formStable = 0
    /\ depsStable = 0
    /\ formRequested = FALSE
    /\ depsRequested = FALSE
    /\ hasCompleted = FALSE
    /\ costArgs = Undefined
    /\ costResult = Pending
    /\ tokArgs = Undefined
    /\ tokResult = Pending
    /\ recArgs = Undefined
    /\ recResult = Pending
    /\ genSpec = Undefined
    /\ genClock = 0
    /\ genOutputs = <<>>
    /\ initName = Undefined
    /\ heapRegistry = PricingRegistry
    /\ heapSpec \in FrameSpecs
    /\ heapInputs \in CostInputs
    /\ frameCalls = <<>>

SpecFrame == FrameInit /\ [][FrameNext]_vars

-----------------------------------------------------------------------------
(* Properties *)

Range(s) == {s[i] : i \in DOMAIN s}

\* The messages of the checks an inputs or outputs field violates: the
\* field's own check, and for an array those of every element that is not
\* null or undefined.
fieldViolations(spec, field) ==
    LET v == Get(spec, field)
    IN IF ~Truthy(v) \/ ~IsArray(v)
       THEN {"Flow " \o field \o " must be an array"}
       ELSE UNION {IF Nullish(v.v[i]) THEN {}
                   ELSE Range(validateParameter(v.v[i],
                                  field \o "[" \o ToString(i - 1) \o "]").errors)
                   : i \in DOMAIN v.v}

\* The messages of all the checks a value violates, field by field.
Violations(spec) ==
    IF Nullish(spec) THEN {}
    ELSE Range(idErrors(spec)) \cup Range(nameErrors(spec))
         \cup Range(versionErrors(spec))
         \cup fieldViolations(spec, "inputs") \cup fieldViolations(spec, "outputs")
         \cup Range(runtimeErrors(spec)) \cup Range(metaErrors(spec))

\* C1: validateFlowSpec never throws: whatever value it is applied to, the
\* call ends by returning a result {valid, errors}.
ValidateNeverThrows ==
    vResult # Pending => vResult.kind = "return"

\* C2: error accumulation: the call returns an error list, and the list
\* holds the message of every check the value violates, whatever other
\* checks it violates too.
ErrorsAccumulate ==
    vResult # Pending =>
        /\ vResult.kind = "return"
        /\ Violations(vSpec) \subseteq Range(vResult.errors)

ReportedValid(validation) == validation.kind = "return" /\ validation.valid

\* C3: in the generate command a generator is called or an artifact is
\* written only after validateFlowSpec returned valid = true for the loaded
\* spec; when validation failed no generator was called, no artifact was
\* written and the process has ended with a non-zero code.
GenerateOnlyAfterValid ==
    cliCmd = "generate" =>
        /\ (cliCalls # <<>> \/ cliWritten # {}) =>
              /\ cliFile.kind = "json"
              /\ cliValidation = validateFlowSpec(cliFile.content)
              /\ ReportedValid(cliValidation)
        /\ (cliValidation # Pending /\ ~ReportedValid(cliValidation)) =>
              /\ cliCalls = <<>>
              /\ cliWritten = {}
              /\ cliPc = "exited"
              /\ cliExit \notin {Undefined, Num(0)}

GenerateWroteBoth ==
    /\ cliCmd = "generate"
    /\ cliPc = "exited"
    /\ cliExit = Num(0)
    /\ cliCalls = <<"generateTypeScriptTypes", "generateReactComponent">>
    /\ Cardinality(cliWritten) = 2

\* C4: the validate command ends with code 0 exactly when validateFlowSpec
\* reports the loaded spec valid, and with code 1 in every other outcome.
ValidateExitsZeroIffValid ==
    (cliCmd = "validate" /\ cliPc = "exited") =>
        /\ cliExit \in {Num(0), Num(1)}
        /\ cliExit = Num(0) <=>
              /\ cliFile.kind = "json"
              /\ ReportedValid(validateFlowSpec(cliFile.content))

ValidateExitedZero ==
    /\ cliCmd = "validate"
    /\ cliPc = "exited"
    /\ cliExit = Num(0)
    /\ cliValidation.kind = "return"

\* C5: at most one run request is outstanding at any time.
AtMostOneRunOutstanding == Len(runs) <= 1

\* C6: the execution state never has both error and result set, the two
\* panels are never rendered together, and once an execution has completed
\* and its state is rendered, exactly one of the two panels is rendered.
ExactlyOnePanel ==
    /\ ~(Truthy(execution.error) /\ Truthy(execution.result))
    /\ ~(ErrorPanel(view) /\ ResultPanel(view))
    /\ (mounted /\ hasCompleted /\ runs = <<>> /\ view = Current) =>
          (ErrorPanel(view) # ResultPanel(view))

\* C7, as stated: a form state that has stayed unchanged for the debounce
\* interval is not replaced before an estimate request carrying it was
\* issued. A timer that is due at the instant of the change counts as
\* having run.
StableFormStateRequested ==
    [][(/\ mounted
        /\ formStable >= DebounceTicks
        /\ ~TimerDue
        /\ formState' # formState) => formRequested]_vars

\* C7: once form state and selected model have stayed without an update for
\* the debounce interval in a mounted component, an estimate request
\* carrying exactly that form state and that model has been issued, or is
\* being issued at this instant.
StableDepsRequested ==
    (mounted /\ depsStable >= DebounceTicks) =>
        \/ depsRequested
        \/ \E id \in DOMAIN timers :
              /\ timers[id].left = 0
              /\ timers[id].formState = formState
              /\ timers[id].selectedModel = selectedModel

ChangedDepsRequested ==
    /\ mounted
    /\ changesLeft < MaxChanges
    /\ depsStable >= DebounceTicks
    /\ depsRequested
    /\ lastEstimate = [formState |-> formState, selectedModel |-> selectedModel]

\* C8: whenever the result panel is rendered for a run that came with a
\* cost, the cost line is rendered in it.
CostShownWithResult ==
    (ResultPanel(view) /\ IsNumber(view.execution.cost)) => CostShown(view)

requestedModel == OrDefault(costArgs.modelId, Str(<<"l", "l", "a", "m", "a", "3", "-", "8", "b", "-", "q", "4">>))
requestedGpu == OrDefault(costArgs.gpuType, Str(<<"c", "p", "u">>))

RegisteredModel ==
    \E i \in DOMAIN llmRegistry : llmRegistry[i].id = requestedModel

\* C9: estimateCost with a modelId that no registry entry has fails with
\* ModelNotFound and hands back no estimate.
UnknownModelFails ==
    (costResult # Pending /\ ~RegisteredModel) =>
        /\ costResult = ModelNotFound(requestedModel)
        /\ "estimate" \notin DOMAIN costResult

UnknownModelRejected ==
    /\ costResult # Pending
    /\ ~RegisteredModel
    /\ costResult.kind = "throw"
    /\ costResult.error = "Model not found"

\* C10: estimateCost with a registered modelId and a compute tier that is
\* no key of the pricing table fails with ComputeTierNotFound and hands
\* back no estimate, whatever the identifier.
UnknownTierFails ==
    (costResult # Pending /\ RegisteredModel
     /\ requestedGpu.v \notin DOMAIN gpuPricing) =>
        /\ costResult = GpuNotFound(requestedGpu)
        /\ "estimate" \notin DOMAIN costResult

EstimateReturned == costResult.kind = "return"

\* x === y for two numbers: NaN equals nothing, itself included.
NumEq(x, y) == ~IsNaN(x) /\ ~IsNaN(y) /\ x = y

\* C11: cost additivity: the total a successful call returns is the number
\* llm cost + container cost of the same estimate.
CostAdditive ==
    EstimateReturned =>
        NumEq(costResult.estimate.total,
              Plus(costResult.estimate.llm, costResult.estimate.container))

\* The registry row of the requested model and the token estimates of the
\* call.
requestedRow ==
    llmRegistry[CHOOSE i \in DOMAIN llmRegistry : llmRegistry[i].id = requestedModel]
callInputTokens == estimateTokensFromInputs(costArgs.inputs)
callOutputTokens == estimateOutputTokens(Get(costArgs.spec, "id").v, callInputTokens)

\* (inputTokens/1000)*pricePer1kInput + (outputTokens/1000)*pricePer1kOutput
referenceModelCost ==
    Plus(Times(Ratio(callInputTokens, 1000),
               Ratio(requestedRow.price_per_1k_tokens_input_usd, 1)),
         Times(Times(callOutputTokens, Ratio(1, 1000)),
               Ratio(requestedRow.price_per_1k_tokens_output_usd, 1)))

\* (inputTokens+outputTokens)/tokensPerSecond + 5
referenceRuntime ==
    Plus(Times(Plus(Ratio(callInputTokens, 1), callOutputTokens),
               Ratio(1, requestedRow.tokens_per_second)),
         Ratio(5, 1))

\* C14: the fields of a successful call are those of the reference cost
\* model: model cost and runtime by its formulas, container cost the
\* runtime times the price per second of the pricing-table entry of the
\* requested tier.
CostMatchesReference ==
    EstimateReturned =>
        /\ NumEq(costResult.estimate.llm, referenceModelCost)
        /\ NumEq(costResult.estimate.runtime, referenceRuntime)
        /\ \E k \in DOMAIN gpuPricing :
              /\ k = requestedGpu.v
              /\ NumEq(costResult.estimate.container,
                       Times(referenceRuntime,
                             ToNumber(Get(gpuPricing[k], "price_per_second_usd"))))

\* Scenario C: flow cluster-keywords, one text input of 4000 characters, a
\* model with 50 tokens per second and 0.0002 USD (200 micro-dollars) per
\* 1000 tokens of input and of output.
ScenarioC ==
    /\ EstimateReturned
    /\ Get(costArgs.spec, "id") = Str(<<"c", "l", "u", "s", "t", "e", "r", "-", "k", "e", "y", "w", "o", "r", "d", "s">>)
    /\ costArgs.inputs = Obj([text |-> Str(ScenarioText)])
    /\ requestedRow.tokens_per_second = 50
    /\ requestedRow.price_per_1k_tokens_input_usd = 200
    /\ requestedRow.price_per_1k_tokens_output_usd = 200

\* C15, as stated: Scenario C yields 1000 input tokens, 500 output tokens,
\* a model cost of 0.0003 USD and a runtime of 25 seconds.
ScenarioCAsStated ==
    ScenarioC =>
        /\ callInputTokens = 1000
        /\ callOutputTokens = Ratio(500, 1)
        /\ costResult.estimate.llm = Ratio(300, 1)
        /\ costResult.estimate.runtime = Ratio(25, 1)

\* C15: Scenario C yields 1000 input tokens, 500 output tokens, a model cost
\* of 0.0003 USD and a runtime of (1000 + 500) / 50 + 5 = 35 seconds.
ScenarioCEstimate ==
    ScenarioC =>
        /\ callInputTokens = 1000
        /\ callOutputTokens = Ratio(500, 1)
        /\ costResult.estimate.llm = Ratio(300, 1)
        /\ costResult.estimate.runtime = Ratio(35, 1)

ScenarioCEstimated ==
    /\ ScenarioC
    /\ requestedGpu = Str(<<"c", "p", "u">>)
    /\ costResult.estimate.runtime = Ratio(35, 1)

\* The serialized character length of one input value: a string by its
\* length, a structured value by the length of its JSON text, any other
\* value by the length of its string form.
serializedLength(value) ==
    CASE value.t = "string" -> Len(value.v)
      [] value.t \in {"object", "array"} -> JSONLength(value)
      [] OTHER -> Len(ToJSString(value))

\* S: the sum of the serialized lengths of the provided input values.
serializedChars(inputs) ==
    LET values == entriesOf(inputs)
    IN SumOver(DOMAIN values, [k \in DOMAIN values |-> serializedLength(values[k])])

InputTokensReturned ==
    tokArgs.fn = "estimateTokensFromInputs" /\ tokResult.kind = "return"

\* C12: the input-token estimate is max(100, floor(S / 4)); it is never
\* below 100 and is exactly 100 whenever S < 400.
InputTokensFormula ==
    (tokResult # Pending /\ InputTokensReturned) =>
        LET S == serializedChars(tokArgs.inputs)
        IN /\ tokResult.value = Max(100, S \div 4)
           /\ tokResult.value >= 100
           /\ S < 400 => tokResult.value = 100

InputTokensAboveFloor ==
    /\ tokResult # Pending
    /\ InputTokensReturned
    /\ serializedChars(tokArgs.inputs) = 422
    /\ tokResult.value = 105

\* C13: the output-token estimate of a flow id that has an entry in the
\* heuristic table is that entry's function of inputTokens, and of every
\* other flow id the id pattern allows it is min(1000, inputTokens).
OutputTokensFormula ==
    (tokResult # Pending /\ tokArgs.fn = "estimateOutputTokens"
     /\ tokResult.kind = "return") =>
        LET id == tokArgs.flowId.v
            n == tokArgs.inputTokens
        IN IF id \in DOMAIN flowEstimates(n)
           THEN tokResult.value = Ratio(flowEstimates(n)[id].v, 1)
           ELSE MatchesFlowId(id) => tokResult.value = Ratio(Min(1000, n), 1)


textsOf(generator) ==
    {genOutputs[i].text : i \in {j \in DOMAIN genOutputs :
        /\ genOutputs[j].generator = generator
        /\ genOutputs[j].text.kind = "return"}}

\* The spec at hand passed validateFlowSpec.
Validated == validateFlowSpec(genSpec).valid

\* C17: for a validated spec the Input and Output shapes are declared as
\* <Name>Input and <Name>Output, <Name> being the id split on hyphens with
\* every segment capitalized, and these are the names ExecutionRequest,
\* ExecutionResult, InputKey and FormState refer to.
DeclarationsRooted ==
    Validated =>
        \A text \in textsOf("generateTypeScriptTypes") :
            /\ text.inputTypes.name = declared(genSpec, InputSuffix)
            /\ text.outputTypes.name = declared(genSpec, OutputSuffix)
            /\ text.executionRequest.inputs = text.inputTypes.name
            /\ text.executionResult.data = text.outputTypes.name
            /\ text.inputKey.keyof = text.inputTypes.name
            /\ text.formState.extends = text.inputTypes.name

\* What a target type is, in the words of the type mapping.
targetKind(target) ==
    CASE target = "string" -> "text"
      [] target = "number" -> "numeric"
      [] target = "boolean" -> "boolean"
      [] target \in {"File | string", "File | null"} -> "binary handle or reference"
      [] target = "Record<string, any>" -> "open key-value map"
      [] target = "any[]" -> "sequence"
      [] OTHER -> "any"

\* What the mapping is to make of a parameter type of the closed set.
expectedKind(type) ==
    CASE type \in {Str(<<"s", "t", "r", "i", "n", "g">>), Str(<<"t", "e", "x", "t">>), Str(<<"u", "r", "l">>)} -> "text"
      [] type = Str(<<"n", "u", "m", "b", "e", "r">>) -> "numeric"
      [] type = Str(<<"b", "o", "o", "l", "e", "a", "n">>) -> "boolean"
      [] type = Str(<<"f", "i", "l", "e">>) -> "binary handle or reference"
      [] type \in {Str(<<"j", "s", "o", "n">>), Str(<<"o", "b", "j", "e", "c", "t">>)} -> "open key-value map"
      [] type = Str(<<"a", "r", "r", "a", "y">>) -> "sequence"

\* The fields of a generated interface are typed as the mapping says.
typedAsExpected(interface, params) ==
    \A k \in DOMAIN interface.fields :
        /\ interface.fields[k].type # "any"
        /\ targetKind(interface.fields[k].type)
               = expectedKind(Get(params.v[k], "type"))

\* C18: for a validated spec, whose parameter types are of the closed set,
\* both generators give every parameter a target type that is not "any":
\* text, numeric, boolean, binary, open key-value map or sequence.
TypeMappingTotal ==
    Validated =>
        /\ \A text \in textsOf("generateTypeScriptTypes") :
              /\ typedAsExpected(text.inputTypes, Get(genSpec, "inputs"))
              /\ typedAsExpected(text.outputTypes, Get(genSpec, "outputs"))
        /\ \A text \in textsOf("generateReactComponent") :
              typedAsExpected(text.formStateType, Get(genSpec, "inputs"))

\* A call of getModelRecommendations returned.
RecommendationsReturned ==
    recArgs.fn = "getModelRecommendations" /\ recResult.kind = "return"

\* The use cases mapped to the category of the call: none when the table
\* has no entry for it.
mappedUseCases ==
    IF recArgs.flowCategory.v \in DOMAIN categoryRecommendations
    THEN Range(categoryRecommendations[recArgs.flowCategory.v].v)
    ELSE {}

\* The estimated cost of a model in the call: input and output tokens are
\* both the estimated input tokens.
recommendedCost(model) ==
    estimateModelCost(model, recArgs.estimatedInputTokens,
                      recArgs.estimatedInputTokens)

\* The model may be recommended: it is an active entry of the registry, one
\* of its use cases is mapped to the category, and it costs no more than
\* the ceiling when one is given.
Eligible(model) ==
    /\ model \in Range(llmRegistry)
    /\ model.status = Str(<<"a", "c", "t", "i", "v", "e">>)
    /\ Range(model.recommended_for) \cap mappedUseCases # {}
    /\ recArgs.budgetUsd # Undefined
       => ~Less(ToNumber(recArgs.budgetUsd), recommendedCost(model))

\* a ranks ahead of b: by the higher score when the scores differ by more
\* than 0.05, by the lower estimated cost otherwise.
RanksAhead(a, b) ==
    IF Abs(a.quality_score - b.quality_score) > 5
    THEN a.quality_score > b.quality_score
    ELSE Less(recommendedCost(a), recommendedCost(b))

\* C19: getModelRecommendations returns at most 3 models, each a registry
\* entry with a use case mapped to the category and within the cost ceiling
\* when one is given, in ranking order, and no such model that is left out
\* ranks ahead of a returned one.
RecommendationsAsSpecified ==
    RecommendationsReturned =>
        LET value == recResult.value
        IN /\ Len(value) <= 3
           /\ \A i \in DOMAIN value : Eligible(value[i])
           /\ \A i, j \in DOMAIN value : i < j => ~RanksAhead(value[j], value[i])
           /\ \A model \in Range(llmRegistry) :
                 Eligible(model) /\ model \notin Range(value)
                 => \A i \in DOMAIN value : ~RanksAhead(model, value[i])

\* A call of compareModels returned.
ComparisonReturned ==
    recArgs.fn = "compareModels" /\ recResult.kind = "return"

\* The runtime estimate of the cost model: the processing time of the
\* tokens and the cold start of 5 seconds.
costModelRuntime(model, inputTokens, outputTokens) ==
    Plus(Ratio(inputTokens + outputTokens, model.tokens_per_second),
         Ratio(5, 1))

\* C20: compareModels returns one entry per listed model, by descending
\* quality score, with the cost of the model and the runtime the cost model
\* estimates for it.
ComparisonAsSpecified ==
    ComparisonReturned =>
        LET value == recResult.value
        IN /\ Len(value) = Len(recArgs.models)
           /\ \A k \in DOMAIN recArgs.models :
                 \E i \in DOMAIN value : value[i].model.id = recArgs.models[k]
           /\ \A i, j \in DOMAIN value :
                 i < j => value[i].qualityScore >= value[j].qualityScore
           /\ \A i \in DOMAIN value :
                 /\ value[i].qualityScore = value[i].model.quality_score
                 /\ value[i].cost
                        = estimateModelCost(value[i].model, recArgs.inputTokens,
                                            recArgs.outputTokens)
                 /\ value[i].processingTime
                        = costModelRuntime(value[i].model, recArgs.inputTokens,
                                           recArgs.outputTokens)

\* The parameters of the inputs and outputs of the spec handed to the
\* validator.
parametersOf(spec) ==
    UNION {IF IsArray(Get(spec, field)) THEN Range(Get(spec, field).v) ELSE {} :
              field \in {"inputs", "outputs"}}

\* validation.min and validation.max are both present on the parameter.
HasBothBounds(param) ==
    /\ ~Nullish(param)
    /\ ~Nullish(Get(param, "validation"))
    /\ Get(Get(param, "validation"), "min").t = "number"
    /\ Get(Get(param, "validation"), "max").t = "number"

\* C23: in a spec that validateFlowSpec reports valid, every parameter with
\* both validation.min and validation.max has min <= max.
ValidBoundsOrdered ==
    ReportedValid(vResult) =>
        \A param \in parametersOf(vSpec) :
            HasBothBounds(param)
            => Get(Get(param, "validation"), "min").v
                   <= Get(Get(param, "validation"), "max").v

\* The paths of the fields of a flow spec with up to n inputs and outputs.
fieldPaths(n) ==
    {"id", "name", "version", "inputs", "outputs", "runtime", "meta",
     "runtime.image", "runtime.gpu", "runtime.timeout", "runtime.memory",
     "meta.author", "meta.category", "meta.tags", "meta.repository"}
    \cup {field \o "[" \o ToString(i) \o "]" \o leaf :
            field \in {"inputs", "outputs"}, i \in 0..(n - 1),
            leaf \in {".name", ".type", ".validation.min", ".validation.max",
                      ".validation.minLength", ".validation.maxLength",
                      ".ui.widget", ".ui.rows"}}

\* What the messages say of a field.
MessageTails ==
    {" is required", " must be an array", " must be a number",
     " must be a string", " must be a valid identifier",
     " must be 3-100 characters",
     " must be 3-64 characters, lowercase letters, numbers, and hyphens only",
     " must be semantic version (e.g., 1.0.0)",
     " must be a number between 10 and 3600",
     " must be a number between 128 and 32768",
     " must be one of: string, text, number, boolean, url, file, json, array, object",
     " must be one of: input, textarea, select, checkbox, file, url, json-editor",
     " must be one of: cpu, l4, a10g, a100, a100-80gb",
     " must be one of: data-processing, content-generation, web-scraping, analysis, automation, other"}

\* The message is what is said of the field at the path, the word Flow
\* before it or not.
Names(message, path) ==
    \E before \in {"", "Flow "}, tail \in MessageTails :
        message = before \o path \o tail

\* The spec of scenario A: id cluster-keywords, no name.
ScenarioA ==
    /\ ~Nullish(vSpec)
    /\ Get(vSpec, "id") = Str(<<"c", "l", "u", "s", "t", "e", "r", "-", "k",
                                "e", "y", "w", "o", "r", "d", "s">>)
    /\ Nullish(Get(vSpec, "name"))

\* C24: every message validateFlowSpec returns names the path of a field of
\* the spec, and for the spec of scenario A the result is not valid and has
\* a message that names name.
ErrorsNameTheirPath ==
    vResult.kind = "return" =>
        /\ \A k \in DOMAIN vResult.errors :
              \E path \in fieldPaths(MaxParams) : Names(vResult.errors[k], path)
        /\ ScenarioA => /\ ~vResult.valid
                        /\ \E k \in DOMAIN vResult.errors :
                              Names(vResult.errors[k], "name")

\* The init command wrote flow.json.
FlowJsonWritten ==
    cliCmd = "init" /\ \E a \in cliWritten : a.kind = "flow.json"

\* C22: the flow.json the init command writes is reported valid by
\* validateFlowSpec, whatever the name given.
InitScaffoldValid ==
    FlowJsonWritten => ReportedValid(validateFlowSpec(cliFlowSpec))

RegisteredTier == requestedGpu.v \in DOMAIN gpuPricing

\* C25: estimateCost fails only for a missing registry entry: a call whose
\* modelId is registered and whose compute tier is a key of the pricing
\* table returns a CostEstimate, whatever the spec and the input values
\* (an empty map, null or missing inputs, values of any type).
RegisteredCallsReturn ==
    (costResult # Pending /\ RegisteredModel /\ RegisteredTier) =>
        costResult.kind = "return"

\* The label as specified: the first character capitalized, a space before
\* every capital after it.
specifiedLabel(name) ==
    IF Len(name) = 0 THEN name
    ELSE <<toUpperCase(name[1])>> \o spaced(SubSeq(name, 2, Len(name)), 1)

\* C26: the label of a generated input field is the parameter name with a
\* space before each internal capital letter, none before the first
\* character, and the first letter capitalized, for every name of the
\* identifier pattern, one that begins with a capital included.
LabelsAsSpecified ==
    Validated =>
        \A text \in textsOf("generateReactComponent") :
            \A k \in DOMAIN text.inputFields :
                text.inputFields[k].label
                    = specifiedLabel(text.inputFields[k].name)

\* The validation sub-field k of the parameter is present.
Present(param, k) == validationField(param, k).t # "undefined"

\* The generated field carries the sub-fields of the parameter's validation.
carried(field, param) ==
    /\ \A k \in {"min", "max", "minLength", "maxLength", "pattern"} :
          Present(param, k) =>
              field.attributes[k] = Str(ToJSString(validationField(param, k)))
    /\ (Present(param, "enum") /\ field.case = <<"s", "e", "l", "e", "c", "t">>) =>
          field.options =
              Arr([i \in DOMAIN validationField(param, "enum").v |->
                      ToJSString(validationField(param, "enum").v[i])])

\* C27: for every input parameter and the widget selected for it, each
\* validation sub-field present on the parameter is carried into the
\* generated field: min and max as bounds, minLength and maxLength as
\* length limits, pattern as a pattern, enum as the options of a select.
ValidationCarried ==
    Validated =>
        \A text \in textsOf("generateReactComponent") :
            \A k \in DOMAIN text.inputFields :
                carried(text.inputFields[k], Get(genSpec, "inputs").v[k])

\* Every estimate request was answered, the one issued last with success.
EstimatesSettled == mounted /\ estimates = <<>> /\ lastResponse = "ok"

\* C28: the displayed cost estimate is not stale once the requests settled:
\* with the responses arriving in any order, after all of them arrived the
\* estimate displayed is the response to the request issued last.
LatestEstimateDisplayed == EstimatesSettled => costEstimate = lastEstimate

\* The form state and the model of the render the last effect run belongs to.
renderedDeps == [formState |-> view.formState, selectedModel |-> view.selectedModel]

depsOf(timer) == [formState |-> timer.formState, selectedModel |-> timer.selectedModel]

\* At most one timer is pending: the one the last run of the effect set,
\* with the form state and model of that render; none after unmount.
OnePendingTimer ==
    /\ Cardinality(DOMAIN timers) <= 1
    /\ DOMAIN timers \subseteq {debounceTimer}
    /\ \A id \in DOMAIN timers : depsOf(timers[id]) = renderedDeps
    /\ ~mounted => DOMAIN timers = {}

\* A step that issues an estimate request.
EstimateIssued == Len(estimates') > Len(estimates)

\* C30: at most one debounce timer is pending at any time: a change of the
\* form state or of the selected model cancels the timer set before, unmount
\* cancels the pending one, so that no estimate request is issued for a
\* form state that was replaced inside the debounce interval (a timer due
\* at the instant of the change counts as having run) and none is issued
\* after unmount.
OneDebounceTimer ==
    /\ []OnePendingTimer
    /\ [][EstimateIssued =>
            /\ mounted
            /\ lastEstimate' = renderedDeps
            /\ \/ depsStable = 0
               \/ lastEstimate' = [formState |-> formState,
                                   selectedModel |-> selectedModel]]_vars

\* The timer of the first render was cancelled before it ran and the one
\* set in its place is due.
SupersededTimerCancelled ==
    /\ mounted
    /\ debounceTimer > 1
    /\ lastEstimate = NoRequest
    /\ \E id \in DOMAIN timers : timers[id].left = 0

\* C29: every accepted submit completes: with the run request resolving or
\* rejecting, isRunning of the mounted component returns to false on each
\* path (response ok, status not ok, error thrown, onResult throwing), and
\* is false whenever no run request is in flight.
SubmitCompletes ==
    /\ [](mounted /\ runs = <<>> => ~execution.isRunning)
    /\ (mounted /\ execution.isRunning) ~> (~mounted \/ ~execution.isRunning)

\* A run ended with onResult throwing, in a mounted component.
CallbackThrewAndCompleted ==
    /\ mounted
    /\ hasCompleted
    /\ runs = <<>>
    /\ execution = Failed(CallbackMessage)

\* What the calls are made on is as it was before them.
Unmutated == /\ heapSpec' = heapSpec
             /\ heapInputs' = heapInputs
             /\ heapRegistry' = heapRegistry

\* C21: no component mutates its inputs: after any sequence of calls of
\* validateFlowSpec, generateTypeScriptTypes, generateReactComponent,
\* estimateCost, getModelRecommendations and compareModels, failing ones
\* included, the FlowSpec and the input values passed in are what they
\* were, and the tables of the registry have their contents and order.
InputsNotMutated ==
    /\ [](heapRegistry = PricingRegistry)
    /\ [][Unmutated]_vars

\* getModelRecommendations sorted models ahead of the first one of the
\* registry, and estimateCost failed with ModelNotFound.
SortedAndFailedCalls ==
    /\ \E i \in DOMAIN frameCalls :
          /\ frameCalls[i].fn = "getModelRecommendations"
          /\ frameCalls[i].outcome = "return"
          /\ LET args == frameCalls[i].args
                 value == getModelRecommendations(args[1], args[2], args[3]).value
             IN /\ Len(value) >= 2
                /\ value[1] # llmRegistry[1]
    /\ \E i \in DOMAIN frameCalls :
          /\ frameCalls[i].fn = "estimateCost"
          /\ frameCalls[i].error = "Model not found"
=============================================================================
